---- MODULE Spec2Model ----
(***************************************************************************)
(* A state-machine model of contracts/Sweeper.sol: the batch operation     *)
(* sweepAndSwap, its reentrancy guard, the owner-only setters, and the     *)
(* collaborators it calls (Permit2 registry, price oracle, ERC20 tokens,   *)
(* aggregator).  Every external call of the contract is a control point    *)
(* (pc) at which the callee, which is untrusted, chooses its answer.       *)
(* A revert restores the state recorded when the transaction was entered.  *)
(***************************************************************************)
EXTENDS Integers, Sequences, FiniteSets, TLC

\* ---------------------------------------------------------------- bounds
\* longest token list of one sweepAndSwap call
MaxTokens == 2
\* what the user holds of each ERC20 token at the start
UserFunds == 2
\* what the aggregator holds of the target (ERC20 and native) at the start
VenueFunds == 2
\* longest token list in the specifications with re-entry and repeated calls
ShortList == 1
\* most setter calls made by callees during one sweepAndSwap call
MaxCallbacks == 1
\* target tokens the engine holds before the first call, when it holds any
StrayFunds == 1
\* the width of the machine word standing for uint256
WordBits == 10

\* ------------------------------------------------------------ the world
\* the ERC20 tokens: A and B are swept, T is the ERC20 target
Token == {"A", "B", "T"}
Source == {"A", "B"}
\* address(0): the native-ETH sentinel of targetToken, and "no oracle"
ZERO == "0x0"
Party == {"user", "engine", "venue", "venue2"}
\* the addresses the owner may configure as aggregator
Venue == {"venue", "venue2"}
\* the addresses a caller may pass as permit2: the registry moves the funds
\* or reverts (MockPermit2); "eoa" is an address whose call succeeds and
\* moves nothing
Permit2Addr == {"registry", "eoa"}
\* what a token answers to transfer / approve
TokenAnswer == {"true", "empty", "false", "revert"}

VARIABLES
    owner,        \* Sweeper.owner (immutable)
    aggregator,   \* Sweeper.aggregator
    priceOracle,  \* Sweeper.priceOracle (ZERO: none)
    _status,      \* ReentrancyGuard._status: 1 free, 2 busy
    balanceOf,    \* MockERC20.balanceOf, per token and party
    allowance,    \* MockERC20.allowance[engine][aggregator], per token
    balance,      \* native balance per party
    logs,         \* events of the current transaction, in order
    pc,           \* "idle", or the external call the invocation waits in
    i,            \* loop index (1-based)
    t,            \* the Temp record of the current iteration
    args,         \* calldata of the invocation in flight (or the last one)
    pre,          \* the state at transaction entry, restored by a revert
    outcome,      \* how the last transaction ended
    trace,        \* history: the steps the invocation executed (kept on revert)
    nested,       \* history: re-entry attempts seen in this iteration
    peak,         \* history: most sweepAndSwap frames on the stack at once
    twin          \* the same invocation run with partialSuccess negated

vars == <<owner, aggregator, priceOracle, _status, balanceOf, allowance,
          balance, logs, pc, i, t, args, pre, outcome, trace, nested, peak,
          twin>>

\* The machine as one record, so that one definition of each step serves the
\* invocation and its twin.
Machine ==
    [owner |-> owner, aggregator |-> aggregator, priceOracle |-> priceOracle,
     _status |-> _status, balanceOf |-> balanceOf, allowance |-> allowance,
     balance |-> balance, logs |-> logs, pc |-> pc, i |-> i, t |-> t,
     args |-> args, pre |-> pre, outcome |-> outcome, trace |-> trace,
     nested |-> nested, peak |-> peak]

Apply(m) ==
    /\ owner' = m.owner
    /\ aggregator' = m.aggregator
    /\ priceOracle' = m.priceOracle
    /\ _status' = m._status
    /\ balanceOf' = m.balanceOf
    /\ allowance' = m.allowance
    /\ balance' = m.balance
    /\ logs' = m.logs
    /\ pc' = m.pc
    /\ i' = m.i
    /\ t' = m.t
    /\ args' = m.args
    /\ pre' = m.pre
    /\ outcome' = m.outcome
    /\ trace' = m.trace
    /\ nested' = m.nested
    /\ peak' = m.peak

\* the same for the unprimed variables
Apply0(m) ==
    /\ owner = m.owner
    /\ aggregator = m.aggregator
    /\ priceOracle = m.priceOracle
    /\ _status = m._status
    /\ balanceOf = m.balanceOf
    /\ allowance = m.allowance
    /\ balance = m.balance
    /\ logs = m.logs
    /\ pc = m.pc
    /\ i = m.i
    /\ t = m.t
    /\ args = m.args
    /\ pre = m.pre
    /\ outcome = m.outcome
    /\ trace = m.trace
    /\ nested = m.nested
    /\ peak = m.peak

Min(a, b) == IF a <= b THEN a ELSE b

\* ------------------------------------------------------------- Temp, events
\* struct Temp, zero-initialised by `Temp memory t` and set by lines 120-121;
\* balanceEth is the local of line 193
FreshTemp ==
    [okPrice |-> TRUE, price |-> 0, decimals |-> 0, normalizedPrice |-> 0,
     amountIn |-> 0, balBefore |-> 0, balAfter |-> 0, amountOut |-> 0,
     success |-> FALSE, balanceEth |-> 0]

CurToken(m) == m.args.tokens[m.i]

Swept(m) ==
    [name |-> "Swept", user |-> "user", token |-> CurToken(m),
     amountIn |-> m.t.amountIn, targetToken |-> m.args.targetToken,
     amountOut |-> m.t.amountOut, reason |-> ""]

SweepFailed(m, reason) ==
    [name |-> "SweepFailed", user |-> "user", token |-> CurToken(m),
     amountIn |-> 0, targetToken |-> ZERO, amountOut |-> 0, reason |-> reason]

\* history only: one executed step
Log(m, op, what) ==
    [m EXCEPT !.trace = Append(@, [op |-> op, i |-> m.i, what |-> what])]

Emit(m, ev) ==
    [Log(m, "emit", IF ev.name = "Swept" THEN "Swept" ELSE ev.reason)
        EXCEPT !.logs = Append(@, ev)]

\* ------------------------------------------------------- control flow
\* The state a revert of the transaction restores.
World(m) ==
    [aggregator |-> m.aggregator, priceOracle |-> m.priceOracle,
     _status |-> m._status, balanceOf |-> m.balanceOf,
     allowance |-> m.allowance, balance |-> m.balance, logs |-> m.logs]

\* a revert that gives up the events and the lock but leaves the token
\* ledgers as the aborted transaction wrote them
Revert_KeepsLedgers(m, reason) ==
    [m EXCEPT !.aggregator = m.pre.aggregator,
              !.priceOracle = m.pre.priceOracle,
              !._status = m.pre._status,
              !.logs = m.pre.logs,
              !.pc = "idle",
              !.outcome = [kind |-> "reverted", reason |-> reason]]

\* revert(reason) / a failed require: every effect of the transaction is
\* discarded by the platform; the history variables are kept.
Revert(m, reason) ==
    [m EXCEPT !.aggregator = m.pre.aggregator,
              !.priceOracle = m.pre.priceOracle,
              !._status = m.pre._status,
              !.balanceOf = m.pre.balanceOf,
              !.allowance = m.pre.allowance,
              !.balance = m.pre.balance,
              !.logs = m.pre.logs,
              !.pc = "idle",
              !.outcome = [kind |-> "reverted", reason |-> reason]]

\* a return that skips the epilogue of the guard
Return_KeepsLock(m) ==
    [m EXCEPT !.pc = "idle", !.outcome = [kind |-> "returned", reason |-> ""]]

\* the epilogue of nonReentrant (line 34) and the return to the caller
Return(m) ==
    [m EXCEPT !._status = 1, !.pc = "idle",
              !.outcome = [kind |-> "returned", reason |-> ""]]

\* the engine issues an external call and waits for its answer
CallOut(m, callee) ==
    [Log(m, callee, "") EXCEPT !.pc = callee, !.nested = [attempt |-> "none"]]

\* a loop head that queries the oracle reference whatever its value
LoopHead_AlwaysQueries(m) ==
    IF m.i > Len(m.args.tokens)
    THEN Return(m)
    ELSE CallOut([m EXCEPT !.t = FreshTemp, !.nested = [attempt |-> "none"]],
                 "getPriceUSD")

\* a loop head that keeps the working record of the previous iteration
LoopHead_StaleTemp(m) ==
    IF m.i > Len(m.args.tokens)
    THEN Return(m)
    ELSE LET m1 == [m EXCEPT !.t.okPrice = TRUE, !.t.amountOut = 0,
                             !.nested = [attempt |-> "none"]]
         IN  IF m1.priceOracle # ZERO
             THEN CallOut(m1, "getPriceUSD")
             ELSE CallOut(m1, "balanceOf")

\* the for statement of line 116 and the head of its body (lines 117-150):
\* leaves the loop when the list is exhausted, else starts iteration m.i
\* with a fresh Temp and runs to the first external call: the oracle query
\* when an oracle is set, else the balance query
LoopHead(m) ==
    IF m.i > Len(m.args.tokens)
    THEN Return(m)
    ELSE LET m1 == [m EXCEPT !.t = FreshTemp,
                             !.nested = [attempt |-> "none"]]
         IN  IF m1.priceOracle # ZERO
             THEN CallOut(m1, "getPriceUSD")
             ELSE CallOut(m1, "balanceOf")

\* the initialisation of the for statement (line 116)
EnterLoop(m) == LoopHead([m EXCEPT !.i = 1])

\* a loop head reached again without the i++ of line 116
Continue_SamePosition(m) == LoopHead(m)

\* `continue` / the end of the loop body: i++ and the loop head
Continue(m) == LoopHead([m EXCEPT !.i = @ + 1])

\* the per-asset failure policy: `if (!partialSuccess) revert(..); else continue;`
Escalate(m, abort) ==
    IF ~m.args.partialSuccess THEN Revert(m, abort) ELSE Continue(m)

\* emit SweepFailed(reason), then the failure policy
Fail(m, reason, abort) == Escalate(Emit(m, SweepFailed(m, reason)), abort)

\* ------------------------------------------------------------ the ledgers
\* MockERC20: `amount` of `token` moves from `from` to `to`
Move(b, token, from, to, amount) ==
    [b EXCEPT ![token] =
        [p \in Party |->
            b[token][p] - (IF p = from THEN amount ELSE 0)
                        + (IF p = to THEN amount ELSE 0)]]

\* the same for the native asset
MoveEth(b, from, to, amount) ==
    [p \in Party |->
        b[p] - (IF p = from THEN amount ELSE 0)
             + (IF p = to THEN amount ELSE 0)]

\* a wrapper that takes every call that did not revert as done
SafeCallOk_AcceptsFalse(answer) == answer # "revert"

\* _safeTransfer / _safeApprove (lines 237-246): the low-level call must
\* succeed and the return data must be empty or decode to true
SafeCallOk(answer) ==
    LET success == answer # "revert"
        data == IF answer = "revert" THEN "" ELSE answer
    IN  success /\ (data = "empty" \/ data = "true")

\* what the token does when the engine calls transfer(to, value): MockERC20
\* reverts on an insufficient balance (line 25 of the mock); a token that
\* answers "false" or reverts moves nothing.  The history records how
\* _safeTransfer takes the answer.
TokenTransfer(m, token, to, value, answer) ==
    LET enough == m.balanceOf[token]["engine"] >= value
        moved == answer \in {"true", "empty"} /\ enough
        got == IF enough THEN answer ELSE "revert"
        m1 == Log(m, "transferReturned",
                  IF SafeCallOk(got) THEN "success" ELSE "failure")
    IN  [answer |-> got,
         m |-> IF moved
               THEN [m1 EXCEPT !.balanceOf = Move(@, token, "engine", to, value)]
               ELSE m1]

\* ------------------------------------------------------------- price gate
\* type(uint256).max
MaxUint == 2 ^ WordBits - 1

\* lines 131 and 133 are checked arithmetic (pragma ^0.8.19): the power of
\* ten, computed in uint256, or the product may exceed the word, and then
\* the transaction panics
NormalizePanics(price, decimals, priceDecimals) ==
    \/ decimals > priceDecimals /\ 10 ^ (decimals - priceDecimals) > MaxUint
    \/ /\ decimals < priceDecimals
       /\ \/ 10 ^ (priceDecimals - decimals) > MaxUint
          \/ price * (10 ^ (priceDecimals - decimals)) > MaxUint

\* a normalization that never scales the price up
Normalize_NoScaleUp(price, decimals, priceDecimals) ==
    IF decimals > priceDecimals
    THEN price \div (10 ^ (decimals - priceDecimals))
    ELSE price

\* lines 129-134
Normalize(price, decimals, priceDecimals) ==
    IF decimals > priceDecimals
    THEN price \div (10 ^ (decimals - priceDecimals))
    ELSE IF decimals < priceDecimals
         THEN price * (10 ^ (priceDecimals - decimals))
         ELSE price

\* a gate whose bounds are exclusive
PriceOk_Exclusive(price, decimals, priceDecimals, minPrice, maxPrice) ==
    IF price = 0
    THEN FALSE
    ELSE LET n == Normalize(price, decimals, priceDecimals)
         IN  ~(n <= minPrice \/ n >= maxPrice)

\* the gate without the upper bound of line 135
PriceOk_NoMax(price, decimals, priceDecimals, minPrice, maxPrice) ==
    IF price = 0
    THEN FALSE
    ELSE LET n == Normalize(price, decimals, priceDecimals)
         IN  ~(n < minPrice)

\* lines 126-138: the value of t.okPrice for an oracle answer
PriceOk(price, decimals, priceDecimals, minPrice, maxPrice) ==
    IF price = 0
    THEN FALSE
    ELSE LET n == Normalize(price, decimals, priceDecimals)
         IN  ~(n < minPrice \/ n > maxPrice)

\* ------------------------------------------------------------------ steps
\* a guard that lets every caller in
nonReentrantOk_Open(status) == TRUE

\* line 31: the require of nonReentrant
nonReentrantOk(status) == status = 1

\* line 108
ArrayLengthOk(a) == Len(a.tokens) = Len(a.swapCallData)

\* line 109 without its second conjunct
PriceArrayOk_MinOnly(a) ==
    Len(a.tokens) = Len(a.minPricesUSD)

\* line 109
PriceArrayOk(a) ==
    Len(a.tokens) = Len(a.minPricesUSD) /\ Len(a.tokens) = Len(a.maxPricesUSD)

\* A top-level transaction calling sweepAndSwap(a) with a.value attached:
\* lines 30-33 and 108-116.  The entry state is recorded for a revert; the
\* loop index is 0 until the loop is entered.
sweepAndSwapEntry(m, a) ==
    LET m0 == [m EXCEPT !.logs = <<>>]
        m1 == [m0 EXCEPT !.pre = World(m0), !.args = a, !.i = 0,
                         !.t = FreshTemp, !.trace = <<>>,
                         !.nested = [attempt |-> "none"],
                         !.peak = 1,
                         !.outcome = [kind |-> "running", reason |-> ""],
                         !.balance = MoveEth(@, "user", "engine", a.value)]
    IN  IF ~nonReentrantOk(m1._status) THEN Revert(m1, "REENTRANCY")
        ELSE LET m2 == [m1 EXCEPT !._status = 2]
             IN  IF ~ArrayLengthOk(a) THEN Revert(m2, "ARRAY_LENGTH_MISMATCH")
                 ELSE IF ~PriceArrayOk(a) THEN Revert(m2, "PRICE_ARRAY_MISMATCH")
                 ELSE IF a.permitCalldata THEN CallOut(m2, "permit")
                 ELSE EnterLoop(m2)

\* a relay whose failure is passed over in best-effort mode
PermitReturn_BestEffort(m, ok) ==
    LET m1 == Log(m, "permitReturned", IF ok THEN "success" ELSE "failure")
    IN  IF ok \/ m.args.partialSuccess THEN EnterLoop(m1)
        ELSE Revert(m1, "PERMIT_CALL_FAILED:")

\* _forwardPermit (lines 226-229) when permit2.call returns
PermitReturn(m, ok) ==
    LET m1 == Log(m, "permitReturned", IF ok THEN "success" ELSE "failure")
    IN  IF ok THEN EnterLoop(m1) ELSE Revert(m1, "PERMIT_CALL_FAILED:")

\* lines 125-147 when the oracle answers (price, decimals)
GetPriceReturn(m, price, decimals) ==
    LET k == m.i
        ok == PriceOk(price, decimals, m.args.priceDecimals,
                      m.args.minPricesUSD[k], m.args.maxPricesUSD[k])
        m1 == [m EXCEPT !.t.price = price, !.t.decimals = decimals,
                        !.t.normalizedPrice =
                            IF price = 0 THEN 0
                            ELSE Normalize(price, decimals, m.args.priceDecimals),
                        !.t.okPrice = ok]
    IN  IF price # 0 /\ NormalizePanics(price, decimals, m.args.priceDecimals)
        THEN Revert([m EXCEPT !.t.price = price, !.t.decimals = decimals],
                    "Panic(0x11)")
        ELSE IF ~m1.t.okPrice
        THEN Fail(m1, "PRICE_OUT_OF_RANGE_OR_UNKNOWN", "PRICE_CHECK_FAILED")
        ELSE CallOut(m1, "balanceOf")

\* the balance query without the zero check of line 151
BalanceOfReturn_NoZeroCheck(m) ==
    CallOut([m EXCEPT !.t.amountIn = m.balanceOf[CurToken(m)]["user"]],
            "transferFrom")

\* a balance query answered with the balance at the entry of the call
BalanceOfReturn_AtEntry(m) ==
    LET m1 == [m EXCEPT !.t.amountIn = m.pre.balanceOf[CurToken(m)]["user"]]
    IN  IF m1.t.amountIn = 0
        THEN Fail(m1, "ZERO_BALANCE", "ZERO_BALANCE")
        ELSE CallOut(m1, "transferFrom")

\* lines 150-158 when token.balanceOf(msg.sender) returns (MockERC20)
BalanceOfReturn(m) ==
    LET m1 == [m EXCEPT !.t.amountIn = m.balanceOf[CurToken(m)]["user"]]
    IN  IF m1.t.amountIn = 0
        THEN Fail(m1, "ZERO_BALANCE", "ZERO_BALANCE")
        ELSE CallOut(m1, "transferFrom")

\* a failed pull that aborts the call whatever the mode
Permit2TransferReturn_AlwaysAborts(m, res) ==
    LET ok == res # "failed"
        m1 == IF res = "moved"
              THEN [m EXCEPT !.balanceOf =
                        Move(@, CurToken(m), "user", "engine", m.t.amountIn)]
              ELSE m
    IN  IF ~ok
        THEN Revert(Emit(m1, SweepFailed(m1, "PERMIT2_TRANSFER_FAILED")),
                    "PERMIT2_TRANSFER_FAILED")
        ELSE IF ~m1.args.swapCallData[m1.i]
             THEN CallOut(m1, "refundNoCalldata")
             ELSE CallOut(m1, "approve")

\* the pull without the calldata check of line 165
Permit2TransferReturn_NoDataCheck(m, res) ==
    LET ok == res # "failed"
        m1 == IF res = "moved"
              THEN [m EXCEPT !.balanceOf =
                        Move(@, CurToken(m), "user", "engine", m.t.amountIn)]
              ELSE m
    IN  IF ~ok
        THEN Fail(m1, "PERMIT2_TRANSFER_FAILED", "PERMIT2_TRANSFER_FAILED")
        ELSE CallOut(m1, "approve")

\* _permit2Transfer (lines 258-269) and lines 158-173 when permit2.call
\* returns: "moved" (the registry moved amountIn to the engine), "failed"
\* (the call reverted), "nothing" (the call succeeded and moved nothing)
Permit2TransferReturn(m, res) ==
    LET ok == res # "failed"
        m1 == IF res = "moved"
              THEN [m EXCEPT !.balanceOf =
                        Move(@, CurToken(m), "user", "engine", m.t.amountIn)]
              ELSE m
    IN  IF ~ok
        THEN Fail(m1, "PERMIT2_TRANSFER_FAILED", "PERMIT2_TRANSFER_FAILED")
        ELSE IF ~m1.args.swapCallData[m1.i]
             THEN CallOut(m1, "refundNoCalldata")
             ELSE CallOut(m1, "approve")

\* lines 166-169 when the refund transfer returns
RefundNoCalldataReturn(m, answer) ==
    LET r == TokenTransfer(m, CurToken(m), "user", m.t.amountIn, answer)
    IN  IF ~SafeCallOk(r.answer) THEN Revert(r.m, "TRANSFER_FAILED")
        ELSE Fail(r.m, "NO_SWAP_CALLDATA", "NO_SWAP_CALLDATA")

\* an approval whose failure is reported as a failure of the asset
ApproveReturn_BestEffort(m, answer) ==
    IF ~SafeCallOk(answer) THEN Fail(m, "APPROVE_FAILED", "APPROVE_FAILED")
    ELSE LET m1 == [m EXCEPT !.allowance[CurToken(m)][m.aggregator] = m.t.amountIn]
             m2 == IF m1.args.targetToken # ZERO
                   THEN [Log(m1, "balBefore", "") EXCEPT !.t.balBefore =
                            m1.balanceOf[m1.args.targetToken]["engine"]]
                   ELSE m1
         IN  CallOut(m2, "aggregator")

\* lines 173-181 when token.approve returns: the allowance of the aggregator
\* is set to amountIn, the target balance is read (ERC20 target), and the
\* aggregator is called
ApproveReturn(m, answer) ==
    IF ~SafeCallOk(answer) THEN Revert(m, "APPROVE_FAILED")
    ELSE LET m1 == [m EXCEPT !.allowance[CurToken(m)][m.aggregator] = m.t.amountIn]
             m2 == IF m1.args.targetToken # ZERO
                   THEN [Log(m1, "balBefore", "") EXCEPT !.t.balBefore =
                            m1.balanceOf[m1.args.targetToken]["engine"]]
                   ELSE m1
         IN  CallOut(m2, "aggregator")

\* the report of line 183 and the failure policy, without the refund
AggregatorFailed_NoRefund(m) ==
    Escalate(Emit(m, SweepFailed(m, "AGGREGATOR_CALL_FAILED")),
             "AGGREGATOR_CALL_FAILED")

\* the refund of lines 185-187 without the report of line 183
AggregatorFailed_NoReport(m) ==
    CallOut(m, "refundAggFailed")

\* lines 182-187: the venue call failed; the failure is reported, then the
\* pulled amount is refunded
AggregatorFailed(m) ==
    CallOut(Emit(m, SweepFailed(m, "AGGREGATOR_CALL_FAILED")), "refundAggFailed")

\* a settlement that pays out the engine's whole target balance
AggregatorSucceeded_WholeBalance(m, take, give) ==
    LET tok == CurToken(m)
        tgt == m.args.targetToken
        v == m.aggregator
        m1 == [m EXCEPT !.balanceOf = Move(@, tok, "engine", v, take),
                        !.allowance[tok][v] = @ - take]
        m2 == IF tgt = ZERO
              THEN [m1 EXCEPT !.balance = MoveEth(@, v, "engine", give)]
              ELSE [m1 EXCEPT !.balanceOf = Move(@, tgt, v, "engine", give)]
    IN  IF tgt = ZERO
        THEN LET m3 == [m2 EXCEPT !.t.balanceEth = m2.balance["engine"]]
             IN  IF m3.t.balanceEth > 0
                 THEN CallOut(m3, "sendEth")
                 ELSE Continue(Emit(m3, Swept(m3)))
        ELSE LET m3 == [Log(m2, "balAfter", "") EXCEPT !.t.balAfter =
                           m2.balanceOf[tgt]["engine"]]
             IN  IF m3.t.balAfter > m3.t.balBefore
                 THEN CallOut([m3 EXCEPT !.t.amountOut = m3.t.balAfter],
                              "settle")
                 ELSE CallOut(m3, "refundNoTarget")

\* lines 191-215: the venue call succeeded, having taken `take` of the
\* approved token and delivered `give` of the target
AggregatorSucceeded(m, take, give) ==
    LET tok == CurToken(m)
        tgt == m.args.targetToken
        v == m.aggregator
        m1 == [m EXCEPT !.balanceOf = Move(@, tok, "engine", v, take),
                        !.allowance[tok][v] = @ - take]
        m2 == IF tgt = ZERO
              THEN [m1 EXCEPT !.balance = MoveEth(@, v, "engine", give)]
              ELSE [m1 EXCEPT !.balanceOf = Move(@, tgt, v, "engine", give)]
    IN  IF tgt = ZERO
        THEN LET m3 == [m2 EXCEPT !.t.balanceEth = m2.balance["engine"]]
             IN  IF m3.t.balanceEth > 0
                 THEN CallOut(m3, "sendEth")
                 ELSE Continue(Emit(m3, Swept(m3)))
        ELSE LET m3 == [Log(m2, "balAfter", "") EXCEPT !.t.balAfter =
                           m2.balanceOf[tgt]["engine"]]
             IN  IF m3.t.balAfter > m3.t.balBefore
                 THEN CallOut([m3 EXCEPT !.t.amountOut =
                                  m3.t.balAfter - m3.t.balBefore],
                              "settle")
                 ELSE CallOut(m3, "refundNoTarget")

\* _callAggregator (lines 232-234) and line 181 when aggregator.call returns:
\* the success flag of the call decides alone.  A failed call has no effect
\* of its own.
AggregatorReturn(m, success, take, give) ==
    LET mv == [Log(m, "aggregatorReturned",
                   IF success THEN "success" ELSE "failure")
                  EXCEPT !.t.success = success]
    IN  IF ~mv.t.success
        THEN AggregatorFailed(mv)
        ELSE AggregatorSucceeded(mv, take, give)

\* a refund whose failure is passed over
RefundAggFailedReturn_Swallow(m, answer) ==
    Escalate(TokenTransfer(m, CurToken(m), "user", m.t.amountIn, answer).m,
             "AGGREGATOR_CALL_FAILED")

\* lines 185-187 when the refund transfer returns
RefundAggFailedReturn(m, answer) ==
    LET r == TokenTransfer(m, CurToken(m), "user", m.t.amountIn, answer)
    IN  IF ~SafeCallOk(r.answer) THEN Revert(r.m, "TRANSFER_FAILED")
        ELSE Escalate(r.m, "AGGREGATOR_CALL_FAILED")

\* the native send without the assignment of line 201
SendEthReturn_NoAmount(m, sent) ==
    IF ~sent
    THEN Fail(m, "ETH_TRANSFER_FAILED", "ETH_TRANSFER_FAILED")
    ELSE LET m1 == [m EXCEPT !.balance =
                        MoveEth(@, "engine", "user", m.t.balanceEth)]
         IN  Continue(Emit(m1, Swept(m1)))

\* a failed native send that refunds the pulled amount before it reports
SendEthReturn_Refunds(m, sent) ==
    IF ~sent
    THEN Fail(TokenTransfer(m, CurToken(m), "user", m.t.amountIn, "true").m,
              "ETH_TRANSFER_FAILED", "ETH_TRANSFER_FAILED")
    ELSE LET m1 == [m EXCEPT !.balance =
                        MoveEth(@, "engine", "user", m.t.balanceEth),
                             !.t.amountOut = m.t.balanceEth]
         IN  Continue(Emit(m1, Swept(m1)))

\* lines 195-202 and 217 when msg.sender.call{value: balanceEth} returns
SendEthReturn(m, sent) ==
    IF ~sent
    THEN Fail(m, "ETH_TRANSFER_FAILED", "ETH_TRANSFER_FAILED")
    ELSE LET m1 == [m EXCEPT !.balance =
                        MoveEth(@, "engine", "user", m.t.balanceEth),
                             !.t.amountOut = m.t.balanceEth]
         IN  Continue(Emit(m1, Swept(m1)))

\* the settlement followed by the failure policy's `continue` in best-effort
\* mode, which skips the Swept event of line 217
SettleReturn_ContinueEarly(m, answer) ==
    LET r == TokenTransfer(m, m.args.targetToken, "user", m.t.amountOut, answer)
    IN  IF ~SafeCallOk(r.answer) THEN Revert(r.m, "TRANSFER_FAILED")
        ELSE IF m.args.partialSuccess THEN Continue(r.m)
        ELSE Continue(Emit(r.m, Swept(r.m)))

\* lines 207 and 217 when the transfer of the output returns
SettleReturn(m, answer) ==
    LET r == TokenTransfer(m, m.args.targetToken, "user", m.t.amountOut, answer)
    IN  IF ~SafeCallOk(r.answer) THEN Revert(r.m, "TRANSFER_FAILED")
        ELSE Continue(Emit(r.m, Swept(r.m)))

\* a refund whose failure is passed over: the failure of the asset is
\* reported and the failure policy applied
RefundNoTargetReturn_Swallow(m, answer) ==
    LET r == TokenTransfer(m, CurToken(m), "user", m.t.amountIn, answer)
    IN  Fail(r.m, "NO_TARGET_RECEIVED", "NO_TARGET_RECEIVED")

\* lines 210-213 when the refund transfer returns
RefundNoTargetReturn(m, answer) ==
    LET r == TokenTransfer(m, CurToken(m), "user", m.t.amountIn, answer)
    IN  IF ~SafeCallOk(r.answer) THEN Revert(r.m, "TRANSFER_FAILED")
        ELSE Fail(r.m, "NO_TARGET_RECEIVED", "NO_TARGET_RECEIVED")

\* A callee calls back into sweepAndSwap while the engine waits for it (as
\* MockAggregatorReentrant.swap does, with empty lists).  The guard of line 31
\* rejects the call; were it to pass, the nested frame would run lines 32-34
\* on top of the waiting one.
NestedCall(m) ==
    IF nonReentrantOk(m._status)
    THEN [Log(m, "reenter", "entered")
            EXCEPT !.nested.attempt = "entered", !.peak = @ + 1, !._status = 1]
    ELSE [Log(m, "reenter", "REENTRANCY") EXCEPT !.nested.attempt = "REENTRANCY"]

\* ----------------------------------------------------------------- inputs
SeqsUpTo(S, n) == UNION {[1..k -> S] : k \in 0..n}

\* the caller's price bounds for list position k: [10k, 20k]
MinPrices(n) == [k \in 1..n |-> 10 * k]
MaxPrices(n) == [k \in 1..n |-> 20 * k]

\* what the oracle may answer: <<price, decimals>>
OracleAnswer ==
    {<<0, 2>>, <<9, 2>>, <<10, 2>>, <<41, 2>>, <<209, 3>>, <<2, 1>>, <<5, 1>>}

Request(p2, pcd, tk, nmin, nmax, tgt, data, ps, val) ==
    [permit2 |-> p2, permitCalldata |-> pcd, tokens |-> tk,
     minPricesUSD |-> MinPrices(nmin), maxPricesUSD |-> MaxPrices(nmax),
     priceDecimals |-> 2, targetToken |-> tgt, swapCallData |-> data,
     partialSuccess |-> ps, value |-> val]

\* calls whose four lists have one length; swapCallData[k] is TRUE for a
\* non-empty payload, permitCalldata likewise
WellFormed(n) ==
    {Request(p2, pcd, tk, Len(tk), Len(tk), tgt, data, ps, val) :
        p2 \in Permit2Addr, pcd \in BOOLEAN,
        tk \in SeqsUpTo(Source, n), tgt \in {"T", ZERO},
        data \in SeqsUpTo(BOOLEAN, n), ps \in BOOLEAN, val \in {0, 1}}

\* how many of the three unusual inputs a call uses: an authorization payload
\* to forward, a registry address without code, attached native value
Unusual(a) ==
    (IF a.permitCalldata THEN 1 ELSE 0) + (IF a.permit2 = "eoa" THEN 1 ELSE 0)
    + a.value

\* calls whose lists differ in length
Malformed ==
    {Request("registry", pcd, [k \in 1..n |-> "A"], nmin, nmax, "T",
             [k \in 1..nd |-> TRUE], ps, 0) :
        pcd \in BOOLEAN, n \in 0..MaxTokens, nmin \in 0..MaxTokens,
        nmax \in 0..MaxTokens, nd \in 0..MaxTokens, ps \in BOOLEAN}

\* the calls explored: every well-formed call of up to n tokens that uses at
\* most one of the unusual inputs, and the malformed ones
RequestsUpTo(n) ==
    {a \in WellFormed(n) : Len(a.swapCallData) = Len(a.tokens) /\ Unusual(a) <= 1}
    \cup {a \in Malformed :
            \/ Len(a.minPricesUSD) # Len(a.tokens)
            \/ Len(a.maxPricesUSD) # Len(a.tokens)
            \/ Len(a.swapCallData) # Len(a.tokens)}

Requests == RequestsUpTo(MaxTokens)

ShortRequests == RequestsUpTo(ShortList)

\* the calls of the repeated transactions: token A or none, through the
\* registry, without attached value; of the malformed ones those whose
\* max-price list is empty
LiveRequests ==
    {a \in ShortRequests :
        /\ a.permit2 = "registry"
        /\ a.value = 0
        /\ \A k \in DOMAIN a.tokens : a.tokens[k] = "A"
        /\ Len(a.minPricesUSD) = Len(a.tokens)
        /\ Len(a.swapCallData) = Len(a.tokens)
        /\ Len(a.maxPricesUSD) \in {0, Len(a.tokens)}}

\* the calls made between the setter transactions: one asset A, lists of one
\* length
ConfigRequests ==
    {a \in LiveRequests : Len(a.tokens) = 1 /\ Len(a.maxPricesUSD) = 1}

\* what the oracle may answer in the specification of the price gate
Prices == {0, 1, 5, 10, 11, 100, 199, 1000, MaxUint}
OracleDecimals == {6, 8, 10, 12}

\* the calls of the specification of the price gate: asset A without a
\* conversion payload, every precision and every pair of bounds (min > max
\* included)
PriceBounds == {0, 5, 10, 100}
PriceRequests ==
    {[Request("registry", FALSE, <<"A">>, 1, 1, "T", <<FALSE>>, ps, 0)
        EXCEPT !.priceDecimals = pd, !.minPricesUSD = <<mn>>,
               !.maxPricesUSD = <<mx>>] :
        pd \in {8, 12}, mn \in PriceBounds, mx \in PriceBounds, ps \in BOOLEAN}

\* the calls of the specification of mixed lists: two positions drawn from
\* the swept tokens and the target itself, the target being T
MixRequests ==
    {Request(p2, FALSE, tk, 2, 2, "T", data, ps, 0) :
        p2 \in Permit2Addr, tk \in [1..2 -> Token],
        data \in [1..2 -> BOOLEAN], ps \in BOOLEAN}

\* the calls of the specification of repeated transactions over an engine
\* that may hold assets: one asset, A or B, with or without a conversion
\* payload, any registry address, either target, with or without value
HeldRequests ==
    {Request(p2, FALSE, <<tok>>, 1, 1, tgt, <<data>>, ps, val) :
        p2 \in Permit2Addr, tok \in Source, tgt \in {"T", ZERO},
        data \in BOOLEAN, ps \in BOOLEAN, val \in {0, 1}}

PullResults(p2) == IF p2 = "registry" THEN {"moved", "failed"} ELSE {"nothing"}

\* ---------------------------------------------------------------- setters
\* a transaction that calls a setter begins: its log is empty, it has no
\* sweep arguments and no sweep memory, and the trace names the setter and
\* its caller
SetterEntry(m, setter, caller) ==
    LET m0 == [m EXCEPT !.logs = <<>>]
    IN  [m0 EXCEPT !.pre = World(m0),
                   !.args = Request("registry", FALSE, <<>>, 0, 0, ZERO, <<>>,
                                    FALSE, 0),
                   !.i = 0, !.t = FreshTemp,
                   !.nested = [attempt |-> "none"], !.peak = 0,
                   !.trace = <<[op |-> setter, i |-> 0, what |-> caller]>>]

\* the modifier of lines 72-75: require(msg.sender == owner, "ONLY_OWNER")
onlyOwnerOk(m, caller) == caller = m.owner

\* a setter that anyone may call
setAggregatorBy_Anyone(m, caller, addr) ==
    LET m1 == SetterEntry(m, "setAggregator", caller)
    IN  [m1 EXCEPT !.aggregator = addr,
                   !.outcome = [kind |-> "returned", reason |-> ""]]

\* setAggregator (lines 78-80) under onlyOwner (lines 72-75)
setAggregatorBy(m, caller, addr) ==
    LET m1 == SetterEntry(m, "setAggregator", caller)
    IN  IF ~onlyOwnerOk(m1, caller)
        THEN [m1 EXCEPT !.outcome = [kind |-> "reverted", reason |-> "ONLY_OWNER"]]
        ELSE [m1 EXCEPT !.aggregator = addr,
                        !.outcome = [kind |-> "returned", reason |-> ""]]

\* setPriceOracle (lines 83-85) under onlyOwner (lines 72-75)
setPriceOracleBy(m, caller, addr) ==
    LET m1 == SetterEntry(m, "setPriceOracle", caller)
    IN  IF ~onlyOwnerOk(m1, caller)
        THEN [m1 EXCEPT !.outcome = [kind |-> "reverted", reason |-> "ONLY_OWNER"]]
        ELSE [m1 EXCEPT !.priceOracle = addr,
                        !.outcome = [kind |-> "returned", reason |-> ""]]

\* While the engine waits in an external call, the callee makes `caller`
\* call a setter (neither setter carries nonReentrant): lines 72-85 run
\* inside the callee's frame.  The configuration at the start of the frame
\* is recorded, since a callee that fails takes its effects with it.
SetterCallback(m, setter, caller, addr) ==
    LET m1 == [Log(m, setter, caller) EXCEPT !.nested =
                  [attempt |-> setter, aggregator |-> m.aggregator,
                   priceOracle |-> m.priceOracle]]
    IN  IF ~onlyOwnerOk(m1, caller) THEN m1
        ELSE IF setter = "setAggregator" THEN [m1 EXCEPT !.aggregator = addr]
        ELSE [m1 EXCEPT !.priceOracle = addr]

\* a low-level call that returns failure: what was written inside the
\* callee's frame is discarded
Unwind(m) ==
    IF "aggregator" \in DOMAIN m.nested
    THEN [m EXCEPT !.aggregator = m.nested.aggregator,
                   !.priceOracle = m.nested.priceOracle]
    ELSE m

\* ---------------------------------------------------------------- actions
ExternalCalls ==
    {"permit", "getPriceUSD", "balanceOf", "transferFrom", "refundNoCalldata",
     "approve", "aggregator", "refundAggFailed", "sendEth", "settle",
     "refundNoTarget"}

\* the twin is at the same point of the same invocation
InSync == pc # "idle" /\ twin.pc = pc /\ twin.i = i

\* one step of the invocation, taken by the twin too while it runs along
Step(F(_)) ==
    /\ Apply(F(Machine))
    /\ twin' = IF InSync THEN F(twin) ELSE twin

\* the ledgers after deployment and funding: the user holds both tokens, the
\* first aggregator the target assets
InitBalanceOf ==
    [tk \in Token |-> [p \in Party |->
        IF p = "user" /\ tk \in Source THEN UserFunds
        ELSE IF p = "venue" /\ tk = "T" THEN VenueFunds ELSE 0]]

InitBalance ==
    [p \in Party |->
        IF p = "user" THEN 1 ELSE IF p = "venue" THEN VenueFunds ELSE 0]

\* the constructor (lines 29 and 66-70) called with _priceOracle = oracle; no
\* transaction made yet
InitMachine(oracle) ==
    LET w == [aggregator |-> "venue", priceOracle |-> oracle, _status |-> 1,
              balanceOf |-> InitBalanceOf,
              allowance |-> [tk \in Token |-> [v \in Venue |-> 0]],
              balance |-> InitBalance, logs |-> <<>>]
    IN  [owner |-> "deployer", aggregator |-> w.aggregator,
         priceOracle |-> w.priceOracle, _status |-> w._status,
         balanceOf |-> w.balanceOf, allowance |-> w.allowance,
         balance |-> w.balance, logs |-> w.logs, pc |-> "idle", i |-> 0,
         t |-> FreshTemp,
         args |-> Request("registry", FALSE, <<>>, 0, 0, ZERO, <<>>, FALSE, 0),
         pre |-> w, outcome |-> [kind |-> "none", reason |-> ""],
         trace |-> <<>>, nested |-> [attempt |-> "none"],
         peak |-> 0]

Init ==
    \E oracle \in {ZERO, "oracle"} :
        /\ Apply0(InitMachine(oracle))
        /\ twin = InitMachine(oracle)

\* a transaction of the user calls sweepAndSwap with a request of R
Call(R) ==
    /\ pc = "idle"
    /\ \E a \in R :
        /\ a.value <= balance["user"]
        /\ Apply(sweepAndSwapEntry(Machine, a))
        /\ twin' = sweepAndSwapEntry(Machine,
                        [a EXCEPT !.partialSuccess = ~a.partialSuccess])

\* the first transaction after deployment
SweepAndSwap ==
    /\ outcome.kind = "none"
    /\ Call(Requests)

PermitAnswers ==
    /\ pc = "permit"
    /\ \E ok \in BOOLEAN : Step(LAMBDA m : PermitReturn(m, ok))

OracleAnswers ==
    /\ pc = "getPriceUSD"
    /\ \E o \in OracleAnswer : Step(LAMBDA m : GetPriceReturn(m, o[1], o[2]))

BalanceOfAnswers ==
    /\ pc = "balanceOf"
    /\ Step(BalanceOfReturn)

Permit2TransferAnswers ==
    /\ pc = "transferFrom"
    /\ \E res \in PullResults(args.permit2) :
        Step(LAMBDA m : Permit2TransferReturn(
                            IF res = "failed" THEN Unwind(m) ELSE m, res))

RefundNoCalldataAnswers ==
    /\ pc = "refundNoCalldata"
    /\ \E ans \in TokenAnswer : Step(LAMBDA m : RefundNoCalldataReturn(m, ans))

ApproveAnswers ==
    /\ pc = "approve"
    /\ \E ans \in TokenAnswer : Step(LAMBDA m : ApproveReturn(m, ans))

AggregatorAnswers ==
    /\ pc = "aggregator"
    /\ \E success \in BOOLEAN :
       \E take \in 0..Min(allowance[args.tokens[i]][aggregator],
                          balanceOf[args.tokens[i]]["engine"]) :
       \E give \in 0..(IF args.targetToken = ZERO THEN balance[aggregator]
                       ELSE balanceOf[args.targetToken][aggregator]) :
        /\ success \/ (take = 0 /\ give = 0)
        /\ Step(LAMBDA m : AggregatorReturn(
                              IF success THEN m ELSE Unwind(m),
                              success, take, give))

RefundAggFailedAnswers ==
    /\ pc = "refundAggFailed"
    /\ \E ans \in TokenAnswer : Step(LAMBDA m : RefundAggFailedReturn(m, ans))

SendEthAnswers ==
    /\ pc = "sendEth"
    /\ \E sent \in BOOLEAN :
        Step(LAMBDA m : SendEthReturn(IF sent THEN m ELSE Unwind(m), sent))

SettleAnswers ==
    /\ pc = "settle"
    /\ \E ans \in TokenAnswer : Step(LAMBDA m : SettleReturn(m, ans))

RefundNoTargetAnswers ==
    /\ pc = "refundNoTarget"
    /\ \E ans \in TokenAnswer : Step(LAMBDA m : RefundNoTargetReturn(m, ans))

\* the callee of the pending external call calls sweepAndSwap
Reenter ==
    /\ pc \in ExternalCalls
    /\ nested.attempt = "none"
    /\ Step(NestedCall)

\* the accounts that send transactions to the setters
Caller == {"deployer", "user", "venue"}

\* a transaction calls setAggregator
SetAggregator ==
    /\ pc = "idle"
    /\ \E caller \in Caller, addr \in Venue :
        /\ Apply(setAggregatorBy(Machine, caller, addr))
        /\ twin' = setAggregatorBy(Machine, caller, addr)

\* a transaction calls setPriceOracle
SetPriceOracle ==
    /\ pc = "idle"
    /\ \E caller \in Caller, addr \in {ZERO, "oracle"} :
        /\ Apply(setPriceOracleBy(Machine, caller, addr))
        /\ twin' = setPriceOracleBy(Machine, caller, addr)

\* the external calls that may write state (balanceOf and getPriceUSD are
\* view functions, called with STATICCALL)
WritingCalls == ExternalCalls \ {"getPriceUSD", "balanceOf"}

\* the setter calls callees have made during the invocation
Callbacks ==
    {k \in DOMAIN trace : trace[k].op \in {"setAggregator", "setPriceOracle"}}

\* the callee of the pending call has a setter called, by the owner or by
\* itself; an address without code calls nothing
Callback ==
    /\ pc \in WritingCalls
    /\ pc \in {"permit", "transferFrom"} => args.permit2 = "registry"
    /\ nested.attempt = "none"
    /\ Cardinality(Callbacks) < MaxCallbacks
    /\ \E caller \in {"deployer", "venue"} :
        \/ \E addr \in Venue :
              Step(LAMBDA m : SetterCallback(m, "setAggregator", caller, addr))
        \/ \E addr \in {ZERO, "oracle"} :
              Step(LAMBDA m : SetterCallback(m, "setPriceOracle", caller, addr))

\* the callee answers the external call the invocation waits in
Answers ==
    \/ PermitAnswers
    \/ OracleAnswers
    \/ BalanceOfAnswers
    \/ Permit2TransferAnswers
    \/ RefundNoCalldataAnswers
    \/ ApproveAnswers
    \/ AggregatorAnswers
    \/ RefundAggFailedAnswers
    \/ SendEthAnswers
    \/ SettleAnswers
    \/ RefundNoTargetAnswers

\* One transaction, from the deployed state to its end.
Next ==
    \/ SweepAndSwap
    \/ Answers

Spec == Init /\ [][Next]_vars

\* the first transaction, with a short token list
ShortSweepAndSwap ==
    /\ outcome.kind = "none"
    /\ Call(ShortRequests)

\* One transaction during which the callees may call back into sweepAndSwap.
ReentryNext ==
    \/ ShortSweepAndSwap
    \/ Answers
    \/ Reenter

ReentrySpec == Init /\ [][ReentryNext]_vars

\* a transaction in whatever state the earlier transactions left
SweepAndSwapAgain ==
    /\ pc = "idle"
    /\ Call(LiveRequests)

\* Transaction after transaction; every external call returns.
LiveNext ==
    \/ SweepAndSwapAgain
    \/ Answers

LiveSpec == Init /\ [][LiveNext]_vars /\ WF_vars(Answers)

\* MockERC20.mint: before the first call someone mints target tokens to the
\* engine's address
MintToEngine ==
    /\ pc = "idle"
    /\ outcome.kind = "none"
    /\ balanceOf["T"]["engine"] = 0
    /\ Apply([Machine EXCEPT !.balanceOf["T"]["engine"] = StrayFunds,
                             !.pre.balanceOf["T"]["engine"] = StrayFunds])
    /\ twin' = [twin EXCEPT !.balanceOf["T"]["engine"] = StrayFunds,
                            !.pre.balanceOf["T"]["engine"] = StrayFunds]

\* the oracle answers with any price of the word range and any precision
WideOracleAnswers ==
    /\ pc = "getPriceUSD"
    /\ \E price \in Prices, decimals \in OracleDecimals :
        Step(LAMBDA m : GetPriceReturn(m, price, decimals))

\* a transaction of the user with a request of the price-gate specification
PriceSweepAndSwap ==
    /\ pc = "idle"
    /\ Call(PriceRequests)

\* Transaction after transaction, the oracle being set and unset in between;
\* the requests carry no conversion payload, so that an iteration ends with
\* the refund.
PriceNext ==
    \/ SetPriceOracle
    \/ PriceSweepAndSwap
    \/ WideOracleAnswers
    \/ BalanceOfAnswers
    \/ Permit2TransferAnswers
    \/ RefundNoCalldataAnswers

PriceSpec == Init /\ [][PriceNext]_vars

\* One transaction, made when the engine may already hold target tokens.
StrayNext ==
    \/ MintToEngine
    \/ SweepAndSwap
    \/ Answers

StraySpec == Init /\ [][StrayNext]_vars

\* One transaction during which the callees may have the setters called.
CallbackNext ==
    \/ ShortSweepAndSwap
    \/ Answers
    \/ Callback

CallbackSpec == Init /\ [][CallbackNext]_vars

\* the first transaction, with a list that may name an asset twice and may
\* name the target as a source
MixSweepAndSwap ==
    /\ outcome.kind = "none"
    /\ Call(MixRequests)

\* One transaction over a mixed list with an ERC20 target.
MixNext ==
    \/ MixSweepAndSwap
    \/ OracleAnswers
    \/ BalanceOfAnswers
    \/ Permit2TransferAnswers
    \/ RefundNoCalldataAnswers
    \/ ApproveAnswers
    \/ AggregatorAnswers
    \/ RefundAggFailedAnswers
    \/ SettleAnswers
    \/ RefundNoTargetAnswers

MixSpec == Init /\ [][MixNext]_vars

\* MockERC20.mint: before the first call someone mints source tokens to the
\* engine's address, as many as the user holds
MintSourceToEngine ==
    /\ pc = "idle"
    /\ outcome.kind = "none"
    /\ \E tok \in Source :
        /\ balanceOf[tok]["engine"] = 0
        /\ Apply([Machine EXCEPT !.balanceOf[tok]["engine"] = UserFunds,
                                 !.pre.balanceOf[tok]["engine"] = UserFunds])
        /\ twin' = [twin EXCEPT !.balanceOf[tok]["engine"] = UserFunds,
                                !.pre.balanceOf[tok]["engine"] = UserFunds]

\* the first transaction of the user, and a second one once the first has
\* returned and left native value in the engine
HeldSweepAndSwap ==
    /\ pc = "idle"
    /\ \/ outcome.kind = "none"
       \/ /\ outcome.kind = "returned"
          /\ pre.balance["engine"] = 0
          /\ balance["engine"] > 0
    /\ Call(HeldRequests)

\* One transaction, or two, over an engine that may hold assets.
HeldNext ==
    \/ MintSourceToEngine
    \/ HeldSweepAndSwap
    \/ OracleAnswers
    \/ BalanceOfAnswers
    \/ Permit2TransferAnswers
    \/ RefundNoCalldataAnswers
    \/ ApproveAnswers
    \/ AggregatorAnswers
    \/ RefundAggFailedAnswers
    \/ SendEthAnswers
    \/ SettleAnswers
    \/ RefundNoTargetAnswers

HeldSpec == Init /\ [][HeldNext]_vars

\* a transaction of the user between the setter transactions
ConfigSweepAndSwap ==
    /\ pc = "idle"
    /\ Call(ConfigRequests)

\* Transaction after transaction, the setters among them.
ConfigNext ==
    \/ SetAggregator
    \/ SetPriceOracle
    \/ ConfigSweepAndSwap
    \/ Answers

ConfigSpec == Init /\ [][ConfigNext]_vars

\* ======================================================================
\* The claims
\* ======================================================================
Range(f) == {f[k] : k \in DOMAIN f}

Returned == pc = "idle" /\ outcome.kind = "returned"
Reverted == pc = "idle" /\ outcome.kind = "reverted"

\* the steps of the invocation's history that emitted `what`
Emitted(what) == {k \in DOMAIN trace : trace[k].op = "emit" /\ trace[k].what = what}

\* C1 (as claimed): at the end of every invocation that was not aborted, the
\* engine holds of every listed token, of the ERC20 target and of the native
\* asset exactly what it held before the invocation: nothing pulled stays
\* behind unsettled.
C1_NoStrandedValue ==
    Returned =>
        /\ \A tk \in Range(args.tokens) \cup ({args.targetToken} \cap Token) :
              balanceOf[tk]["engine"] = pre.balanceOf[tk]["engine"]
        /\ args.targetToken = ZERO =>
              balance["engine"] = pre.balance["engine"]

\* the steps of the history that reported a failure
FailureReported ==
    {k \in DOMAIN trace : trace[k].op = "emit" /\ trace[k].what # "Swept"}

NoAllowance == [tk \in Token |-> [v \in Venue |-> 0]]

ListsDiffer ==
    \/ Len(args.tokens) # Len(args.minPricesUSD)
    \/ Len(args.tokens) # Len(args.maxPricesUSD)
    \/ Len(args.tokens) # Len(args.swapCallData)

\* C10: a call whose asset, min-price, max-price and payload lists are not of
\* one length is aborted in both modes with a length error, having made no
\* external call at all (no permit forward, oracle query, pull, approval,
\* venue call or transfer), emitted no event and moved nothing.
C10_MalformedIsFatal ==
    ListsDiffer =>
        /\ Reverted
        /\ outcome.reason \in {"ARRAY_LENGTH_MISMATCH", "PRICE_ARRAY_MISMATCH"}
        /\ trace = <<>>
        /\ logs = <<>>
        /\ balanceOf = InitBalanceOf
        /\ balance = InitBalance
        /\ allowance = NoAllowance
        /\ _status = 1

\* a best-effort call carrying a permit payload whose max-price list alone is
\* too short has been aborted
C10_Witness ==
    /\ Reverted
    /\ outcome.reason = "PRICE_ARRAY_MISMATCH"
    /\ args.partialSuccess
    /\ args.permitCalldata
    /\ Len(args.tokens) = Len(args.minPricesUSD)
    /\ Len(args.tokens) = Len(args.swapCallData)
    /\ Len(args.tokens) > Len(args.maxPricesUSD)

\* the external calls of an iteration that come after the price gate
AfterGate == ExternalCalls \ {"permit", "getPriceUSD"}

\* n is the value of `price`, quoted with `decimals` decimals, at pd decimals
IsNormalized(n, price, decimals, pd) ==
    /\ decimals = pd => n = price
    /\ decimals > pd =>
          /\ n * 10 ^ (decimals - pd) <= price
          /\ price < (n + 1) * 10 ^ (decimals - pd)
    /\ decimals < pd => n = price * 10 ^ (pd - decimals)

\* with an oracle configured, the invocation is past the gate of the current
\* asset only with a non-zero price whose normalized value is within the
\* bounds of this list position; and an asset reported as failing the gate
\* has no other step in the history: no balance query, pull, approval, venue
\* call, refund or settlement
C8_PastGateOnlyInRange ==
    /\ (pc \in AfterGate /\ priceOracle # ZERO) =>
          /\ t.price # 0
          /\ IsNormalized(t.normalizedPrice, t.price, t.decimals,
                          args.priceDecimals)
          /\ args.minPricesUSD[i] <= t.normalizedPrice
          /\ t.normalizedPrice <= args.maxPricesUSD[i]
    /\ \A k \in Emitted("PRICE_OUT_OF_RANGE_OR_UNKNOWN") :
          \A j \in DOMAIN trace :
              trace[j].i = trace[k].i =>
                  \/ trace[j].op = "getPriceUSD"
                  \/ j = k

\* the step in which the oracle's answer fails the gate: the failure is
\* reported with the price reason; in best-effort mode no balance and no
\* allowance changes, in atomic mode the call is aborted with
\* PRICE_CHECK_FAILED
C8_GateFailureStep ==
    (pc = "getPriceUSD" /\ ~(pc' = "balanceOf" /\ i' = i)) =>
        /\ Len(trace') > Len(trace)
        /\ trace'[Len(trace) + 1] =
              [op |-> "emit", i |-> i, what |-> "PRICE_OUT_OF_RANGE_OR_UNKNOWN"]
        /\ IF args.partialSuccess
           THEN /\ logs' = Append(logs, [name |-> "SweepFailed", user |-> "user",
                                         token |-> args.tokens[i], amountIn |-> 0,
                                         targetToken |-> ZERO, amountOut |-> 0,
                                         reason |-> "PRICE_OUT_OF_RANGE_OR_UNKNOWN"])
                /\ balanceOf' = balanceOf
                /\ balance' = balance
                /\ allowance' = allowance
           ELSE /\ pc' = "idle"
                /\ outcome' = [kind |-> "reverted", reason |-> "PRICE_CHECK_FAILED"]

\* C8: while an oracle is configured, the pull, the approval and the venue
\* call of an asset happen only if the oracle price of that asset is non-zero
\* and its normalized value lies within [minPrice, maxPrice] of the same
\* list position; an asset failing the gate is never pulled, the user's
\* balance of it is unchanged, nothing is refunded, and SweepFailed with the
\* price reason is reported.
C8_PriceGate == []C8_PastGateOnlyInRange /\ [][C8_GateFailureStep]_vars

\* a best-effort call has returned in which the first asset failed the gate
\* and the second one passed it and was converted
C8_Witness ==
    /\ Returned
    /\ priceOracle # ZERO
    /\ \E k \in Emitted("PRICE_OUT_OF_RANGE_OR_UNKNOWN") : trace[k].i = 1
    /\ \E k \in Emitted("Swept") : trace[k].i = 2
    /\ balanceOf[args.tokens[1]]["user"] = UserFunds

AllSwept == \A k \in DOMAIN logs : logs[k].name = "Swept"

\* C9: whenever an invocation returns with every asset converted, the same
\* invocation started in the same state with the other value of
\* partialSuccess, and given the same answers by its collaborators, returns
\* too, with the same balances of all parties and the same sequence of Swept
\* events.
C9_ModeEquivalence ==
    (Returned /\ AllSwept) =>
        /\ twin.args = [args EXCEPT !.partialSuccess = ~args.partialSuccess]
        /\ twin.pc = "idle"
        /\ twin.outcome.kind = "returned"
        /\ twin.balanceOf = balanceOf
        /\ twin.balance = balance
        /\ twin.allowance = allowance
        /\ twin.logs = logs

\* a best-effort call of two assets has returned with both converted to the
\* ERC20 target
C9_Witness ==
    /\ Returned
    /\ args.partialSuccess
    /\ args.targetToken = "T"
    /\ Len(logs) = 2
    /\ AllSwept

\* at most one invocation is ever in flight, and the lock is busy while it is
C2_OneInFlight ==
    /\ peak <= 1
    /\ pc # "idle" => _status = 2

\* the step in which the callee of a pending external call calls
\* sweepAndSwap: the call fails with the reentrancy error and leaves the
\* configuration, the lock, every balance, every allowance and the events as
\* they were; the outer invocation still waits in the same call
C2_NestedCallStep ==
    (nested.attempt = "none" /\ nested'.attempt # "none") =>
        /\ nested'.attempt = "REENTRANCY"
        /\ aggregator' = aggregator
        /\ priceOracle' = priceOracle
        /\ _status' = _status
        /\ balanceOf' = balanceOf
        /\ allowance' = allowance
        /\ balance' = balance
        /\ logs' = logs
        /\ pc' = pc
        /\ i' = i
        /\ t' = t

\* C2: while a sweepAndSwap invocation is in flight, every nested call of
\* sweepAndSwap, whichever callee makes it (the venue, the registry, a token,
\* the oracle, the recipient of the native transfer), fails with the
\* reentrancy error, changes no engine state, moves no asset and emits no
\* event; never are two invocations in flight at once.
C2_ExclusionLock == []C2_OneInFlight /\ [][C2_NestedCallStep]_vars

\* the recipient of the native transfer has tried to re-enter and was rejected
C2_Witness ==
    /\ pc = "sendEth"
    /\ nested.attempt = "REENTRANCY"
    /\ _status = 2
    /\ peak = 1

\* the nested calls the venue made during its own invocation
VenueReentries ==
    {k \in DOMAIN trace :
        /\ trace[k].op = "reenter"
        /\ k > 1
        /\ trace[k - 1].op = "aggregator"}

\* C6 (as claimed): whenever the venue, during its invocation for asset i,
\* calls back into sweepAndSwap, the outer operation reports
\* SweepFailed AGGREGATOR_CALL_FAILED for asset i as soon as the venue
\* returns, never Swept for asset i, and in atomic mode aborts with that
\* reason.
C6_VenueReentryIsReported ==
    \A k \in VenueReentries :
        /\ \A j \in Emitted("Swept") : trace[j].i # trace[k].i
        /\ Len(trace) > k + 1 =>
              trace[k + 2] = [op |-> "emit", i |-> trace[k].i,
                              what |-> "AGGREGATOR_CALL_FAILED"]
        /\ (Reverted /\ ~args.partialSuccess) =>
              outcome.reason = "AGGREGATOR_CALL_FAILED"

\* C6 (amended): the nested call of the venue is always rejected, and the
\* outer operation goes by the success flag of the venue's own call alone:
\* when that call returns failure, as it does when the venue passes the
\* rejection on, AGGREGATOR_CALL_FAILED is reported for asset i at once,
\* Swept is never reported for it, and an atomic call is aborted with that
\* reason or, when the refund fails, with TRANSFER_FAILED; when the venue
\* returns success, AGGREGATOR_CALL_FAILED is not reported for asset i.
C6_VenueReentryGoesByFlag ==
    \A k \in VenueReentries :
        /\ trace[k].what = "REENTRANCY"
        /\ Len(trace) > k => trace[k + 1].op = "aggregatorReturned"
        /\ (Len(trace) > k /\ trace[k + 1].what = "failure") =>
              /\ Len(trace) > k + 1
              /\ trace[k + 2] = [op |-> "emit", i |-> trace[k].i,
                                 what |-> "AGGREGATOR_CALL_FAILED"]
              /\ \A j \in Emitted("Swept") : trace[j].i # trace[k].i
              /\ (Reverted /\ ~args.partialSuccess) =>
                    outcome.reason \in {"AGGREGATOR_CALL_FAILED", "TRANSFER_FAILED"}
        /\ (Len(trace) > k /\ trace[k + 1].what = "success") =>
              \A j \in Emitted("AGGREGATOR_CALL_FAILED") : trace[j].i # trace[k].i

\* a best-effort call has returned in which the venue re-entered, was
\* rejected, returned failure, and the failure was reported after the refund
C6_Witness ==
    /\ Returned
    /\ \E k \in VenueReentries :
          /\ trace[k].what = "REENTRANCY"
          /\ trace[k + 1].what = "failure"
    /\ Len(logs) = 1
    /\ logs[1].reason = "AGGREGATOR_CALL_FAILED"
    /\ balanceOf[args.tokens[1]]["user"] = UserFunds

\* the lock is free whenever no invocation is in flight, and no top-level
\* call is rejected by the guard
C7_FreeWhenIdle ==
    /\ pc = "idle" => _status = 1
    /\ Reverted => outcome.reason # "REENTRANCY"

\* C7: whenever the lock becomes busy the invocation ends, given that every
\* external call returns, and on every way out (normal return, continuation
\* after a failed asset, atomic abort, fatal abort) the lock is free again,
\* so that a following top-level call is never rejected with the reentrancy
\* error.
C7_LockRelease == []C7_FreeWhenIdle /\ ((_status = 2) ~> (pc = "idle" /\ _status = 1))

\* a later call, made after an earlier one moved funds, has ended by an
\* abort and left the lock free
C7_Witness ==
    /\ Reverted
    /\ pre.balanceOf # InitBalanceOf
    /\ ~args.partialSuccess
    /\ outcome.reason = "ZERO_BALANCE"
    /\ _status = 1

\* the external calls that refund the pulled amount after a per-asset failure
Refunds == {"refundNoCalldata", "refundAggFailed", "refundNoTarget"}

\* the calls of an iteration whose failure, or whose finding, is a per-asset
\* failure: price query, balance query, pull, venue call, refunds
PerAssetSteps ==
    {"getPriceUSD", "balanceOf", "transferFrom", "aggregator",
     "aggregatorReturned", "balAfter"} \cup Refunds

\* the last call the invocation made or got an answer to; for a transfer,
\* the transfer
LastOp ==
    IF trace = <<>> THEN ""
    ELSE IF trace[Len(trace)].op = "transferReturned"
         THEN trace[Len(trace) - 1].op
         ELSE trace[Len(trace)].op

\* the step reports a failure of the current asset
ReportsFailure ==
    /\ Len(trace') > Len(trace)
    /\ trace'[Len(trace) + 1].op = "emit"
    /\ trace'[Len(trace) + 1].what # "Swept"

\* in best-effort mode: no abort comes out of a per-asset step; a returned
\* call has one event per position, in list order, and a Swept event only
\* for a non-zero output; in a two-asset batch with one asset converted and
\* the other failed for one of the listed reasons the user has the failed
\* asset's whole original balance and the converted output
C4_BestEffortOutcome ==
    args.partialSuccess =>
        /\ Reverted => LastOp \notin PerAssetSteps
        /\ Returned =>
              /\ Len(logs) = Len(args.tokens)
              /\ \A k \in DOMAIN logs :
                    /\ logs[k].token = args.tokens[k]
                    /\ logs[k].name = "Swept" => logs[k].amountOut > 0
              /\ \A k \in DOMAIN logs :
                    (/\ Len(logs) = 2
                     /\ args.tokens[1] # args.tokens[2]
                     /\ logs[k].name = "SweepFailed"
                     /\ logs[k].reason # "ETH_TRANSFER_FAILED"
                     /\ logs[3 - k].name = "Swept")
                    => /\ balanceOf[args.tokens[k]]["user"]
                            = pre.balanceOf[args.tokens[k]]["user"]
                       /\ IF args.targetToken = ZERO
                          THEN balance["user"]
                                  = pre.balance["user"] - args.value
                                    + logs[3 - k].amountOut
                          ELSE balanceOf[args.targetToken]["user"]
                                  = pre.balanceOf[args.targetToken]["user"]
                                    + logs[3 - k].amountOut

\* in best-effort mode the step that reports a failure keeps the events
\* already emitted and what the user holds of the target, and does not end
\* the invocation by an abort
C4_FailureStep ==
    (args.partialSuccess /\ pc # "idle" /\ ReportsFailure) =>
        /\ Len(logs') = Len(logs) + 1
        /\ SubSeq(logs', 1, Len(logs)) = logs
        /\ logs'[Len(logs')].name = "SweepFailed"
        /\ logs'[Len(logs')].token = args.tokens[i]
        /\ args.targetToken # ZERO =>
              balanceOf'[args.targetToken]["user"]
                  = balanceOf[args.targetToken]["user"]
        /\ outcome'.kind # "reverted"

\* C4 (as claimed): with partialSuccess = true a per-asset failure (price
\* gate, zero balance, failed pull, missing calldata, failed conversion call,
\* zero output) at position i is reported with SweepFailed, does not abort
\* the invocation, leaves the settled results of the earlier positions
\* intact, and the later positions are still processed; a two-asset batch
\* with one failing and one convertible asset ends with the convertible one
\* settled and the failed one's full original balance back with the user.
C4_BestEffortIsolation == []C4_BestEffortOutcome /\ [][C4_FailureStep]_vars

\* the abort reason that goes with a reported failure reason
AbortReason(reason) ==
    IF reason = "PRICE_OUT_OF_RANGE_OR_UNKNOWN" THEN "PRICE_CHECK_FAILED"
    ELSE reason

\* C5 (as claimed): with partialSuccess = false the first per-asset failure
\* of any kind (price gate, zero balance, failed pull, missing calldata,
\* failed conversion call, zero output, failed native transfer) emits
\* SweepFailed for that asset and then aborts the whole invocation, with
\* PRICE_CHECK_FAILED for the price gate and else with the reason of the
\* SweepFailed event; no step of a later asset is executed.
C5_AtomicEscalation ==
    ~args.partialSuccess =>
        /\ \A k \in FailureReported :
              /\ \A j \in DOMAIN trace : j > k => trace[j].i = trace[k].i
              /\ pc = "idle" =>
                    /\ outcome.kind = "reverted"
                    /\ outcome.reason = AbortReason(trace[k].what)
        /\ (Reverted /\ LastOp \in PerAssetSteps) => FailureReported # {}
        /\ Returned =>
              \A k \in DOMAIN logs :
                  logs[k].name = "Swept" /\ logs[k].amountOut > 0

\* the relays of the authorization payload in the history
Permits == {k \in DOMAIN trace : trace[k].op = "permit"}

\* C11: a non-empty authorization payload is relayed to the registry exactly
\* once per invocation, before any per-asset step; when the relay fails the
\* invocation is aborted in both modes with nothing pulled; an empty payload
\* causes no relay and the loop starts at once with the first asset.
C11_ForwardOnce ==
    /\ (args.permitCalldata /\ trace # <<>>) =>
          /\ Permits = {1}
          /\ Len(trace) > 1 => trace[2].op = "permitReturned"
          /\ Len(trace) > 2 => trace[2].what = "success" /\ trace[3].i = 1
    /\ ~args.permitCalldata => Permits = {}
    /\ (~args.permitCalldata /\ ~ListsDiffer /\ args.tokens # <<>>) =>
          /\ trace # <<>>
          /\ trace[1].i = 1
          /\ trace[1].op \in {"getPriceUSD", "balanceOf"}
    /\ \A k \in DOMAIN trace :
          (trace[k].op = "permitReturned" /\ trace[k].what = "failure") =>
              /\ Len(trace) = 2
              /\ Reverted
              /\ outcome.reason = "PERMIT_CALL_FAILED:"
              /\ balanceOf = pre.balanceOf
              /\ allowance = pre.allowance
              /\ balance = pre.balance
              /\ logs = <<>>

\* a best-effort call of two assets was aborted because the relay failed
C11_Witness ==
    /\ Reverted
    /\ args.partialSuccess
    /\ Len(args.tokens) = 2
    /\ outcome.reason = "PERMIT_CALL_FAILED:"
    /\ trace[Len(trace)] = [op |-> "permitReturned", i |-> 0, what |-> "failure"]

\* the transfers by which the engine refunds or settles
Transfers == Refunds \cup {"settle"}

\* C12: when the transfer of a refund or of a settlement fails (the token
\* reverts or returns false) the invocation is aborted with TRANSFER_FAILED
\* in both modes: the failed transfer is the last step of the history, no
\* SweepFailed follows it, no later asset is processed, and nothing of the
\* invocation remains.
C12_SettlementFailureIsFatal ==
    /\ \A k \in DOMAIN trace :
          (trace[k].op \in Transfers /\ k < Len(trace)) =>
              trace[k + 1].op = "transferReturned"
    /\ \A k \in DOMAIN trace :
          (trace[k].op = "transferReturned" /\ trace[k].what = "failure") =>
              /\ k = Len(trace)
              /\ Reverted
              /\ outcome.reason = "TRANSFER_FAILED"
              /\ balanceOf = pre.balanceOf
              /\ allowance = pre.allowance
              /\ balance = pre.balance
              /\ logs = <<>>

\* a best-effort call was aborted by the failed refund of its second asset,
\* after its first asset had been converted
C12_Witness ==
    /\ Reverted
    /\ args.partialSuccess
    /\ outcome.reason = "TRANSFER_FAILED"
    /\ Len(trace) > 1
    /\ trace[Len(trace) - 1] = [op |-> "refundNoTarget", i |-> 2, what |-> ""]
    /\ \E k \in Emitted("Swept") : trace[k].i = 1

\* the pull of position p was taken as successful
Pulled(p) ==
    \E k \in DOMAIN trace :
        /\ trace[k].op = "transferFrom"
        /\ trace[k].i = p
        /\ k < Len(trace)
        /\ trace[k + 1].what # "PERMIT2_TRANSFER_FAILED"

\* the output of position p was transferred to the user: the ERC20 transfer
\* succeeded, or the native transfer was followed by Swept
Settled(p) ==
    \E k \in DOMAIN trace :
        /\ trace[k].i = p
        /\ k < Len(trace)
        /\ \/ trace[k].op = "settle" /\ trace[k + 1].what = "success"
           \/ trace[k].op = "sendEth" /\ trace[k + 1].what = "Swept"

\* the pulled amount of position p was transferred back to the user
Refunded(p) ==
    \E k \in DOMAIN trace :
        /\ trace[k].i = p
        /\ k < Len(trace)
        /\ trace[k].op \in Refunds
        /\ trace[k + 1].what = "success"

\* the failures that come after the pull
FailuresAfterPull ==
    {"NO_SWAP_CALLDATA", "AGGREGATOR_CALL_FAILED", "NO_TARGET_RECEIVED",
     "ETH_TRANSFER_FAILED"}

\* C13 (as claimed): in a non-aborted invocation, for every asset whose pull
\* succeeded exactly one of Settle and Refund was executed, never both and
\* never neither, and Refund was executed whenever a step after the pull
\* failed (no calldata, conversion-call failure, zero output, native-transfer
\* failure).
C13_SettleXorRefund ==
    Returned =>
        \A p \in DOMAIN args.tokens :
            Pulled(p) =>
                /\ Settled(p) # Refunded(p)
                /\ (\E k \in FailureReported :
                        trace[k].i = p /\ trace[k].what \in FailuresAfterPull)
                   => Refunded(p)

\* the venue call of position p returned success
VenueSucceeded(p) ==
    \E k \in DOMAIN trace :
        /\ trace[k].op = "aggregatorReturned"
        /\ trace[k].i = p
        /\ trace[k].what = "success"

\* C14 (as claimed): whenever the venue call succeeds and the output is
\* zero, for an ERC20 target and for the native target alike, the pulled
\* amount is refunded and SweepFailed NO_TARGET_RECEIVED is reported; Swept
\* is never emitted with amountOut = 0.
C14_ZeroOutputIsFailure ==
    /\ \A k \in DOMAIN logs : logs[k].name = "Swept" => logs[k].amountOut > 0
    /\ Returned =>
          \A p \in DOMAIN args.tokens :
              (/\ VenueSucceeded(p)
               /\ ~Settled(p)
               /\ \A k \in Emitted("ETH_TRANSFER_FAILED") : trace[k].i # p)
              => /\ Refunded(p)
                 /\ \E k \in Emitted("NO_TARGET_RECEIVED") : trace[k].i = p

\* the venue calls of the history that returned failure
VenueFailures ==
    {k \in DOMAIN trace :
        trace[k].op = "aggregatorReturned" /\ trace[k].what = "failure"}

\* a failed venue call is followed by the report and by the refund; in a
\* returned best-effort call the user holds of an asset listed once, whose
\* venue call failed, what they held before the call
C15_FailureThenRefund ==
    /\ \A k \in VenueFailures :
          /\ Len(trace) > k =>
                trace[k + 1] = [op |-> "emit", i |-> trace[k].i,
                                what |-> "AGGREGATOR_CALL_FAILED"]
          /\ Len(trace) > k + 1 =>
                trace[k + 2] = [op |-> "refundAggFailed", i |-> trace[k].i,
                                what |-> ""]
    /\ (Returned /\ args.partialSuccess) =>
          \A k \in VenueFailures :
              LET tok == args.tokens[trace[k].i]
              IN  /\ logs[trace[k].i].name = "SweepFailed"
                  /\ logs[trace[k].i].reason = "AGGREGATOR_CALL_FAILED"
                  /\ Refunded(trace[k].i)
                  /\ Cardinality({p \in DOMAIN args.tokens :
                                     args.tokens[p] = tok}) = 1
                     => balanceOf[tok]["user"] = pre.balanceOf[tok]["user"]

\* the step in which the venue call returns failure moves nothing; the
\* refund that follows moves exactly the pulled amount of the asset from the
\* engine to the user and nothing else, unless the call is aborted
C15_RefundStep ==
    /\ (pc = "aggregator" /\ pc' = "refundAggFailed") =>
          /\ balanceOf' = balanceOf
          /\ balance' = balance
    /\ (pc = "refundAggFailed" /\ outcome'.kind # "reverted") =>
          /\ t.amountIn > 0
          /\ balance' = balance
          /\ \A tk \in Token, p \in Party :
                balanceOf'[tk][p] =
                    balanceOf[tk][p]
                    + (IF tk = args.tokens[i] /\ p = "user" THEN t.amountIn ELSE 0)
                    - (IF tk = args.tokens[i] /\ p = "engine" THEN t.amountIn ELSE 0)
    /\ (pc = "refundAggFailed" /\ outcome'.kind = "reverted") =>
          \/ outcome'.reason = "TRANSFER_FAILED"
          \/ ~args.partialSuccess /\ outcome'.reason = "AGGREGATOR_CALL_FAILED"

\* C15: when the raw call to the venue returns failure for an asset, the
\* engine reports AGGREGATOR_CALL_FAILED and transfers exactly the pulled
\* amount of that asset back to the user; in best-effort mode the user's
\* balance of that asset after the invocation equals their balance before
\* it, and the target balances are not changed by that asset.
C15_VenueFailureRefunds == []C15_FailureThenRefund /\ [][C15_RefundStep]_vars

\* a best-effort call has returned in which the venue call of asset 1 failed
\* and was refunded, and asset 2 was converted
C15_Witness ==
    /\ Returned
    /\ args.partialSuccess
    /\ Len(logs) = 2
    /\ logs[1].reason = "AGGREGATOR_CALL_FAILED"
    /\ logs[2].name = "Swept"
    /\ args.tokens[1] # args.tokens[2]
    /\ balanceOf[args.tokens[1]]["user"] = UserFunds

\* the steps of position p in the history, in order
StepsOf(p) ==
    LET F[k \in 0..Len(trace)] ==
            IF k = 0 THEN <<>>
            ELSE IF trace[k].i = p THEN Append(F[k - 1], trace[k].op)
                 ELSE F[k - 1]
    IN  F[Len(trace)]

\* the external calls made for an asset once it is approved
FromApproval ==
    {"approve", "aggregator", "refundAggFailed", "sendEth", "settle",
     "refundNoTarget"}

\* C16: when the conversion payload of an asset is empty the asset is
\* pulled, the whole pulled amount is refunded to the user and SweepFailed
\* NO_SWAP_CALLDATA is reported; for that asset no allowance is granted to
\* the venue and the venue is not called.
C16_NoCalldata ==
    /\ pc \in FromApproval => args.swapCallData[i]
    /\ pc = "refundNoCalldata" =>
          /\ ~args.swapCallData[i]
          /\ t.amountIn > 0
    /\ \A k \in Emitted("NO_SWAP_CALLDATA") :
          /\ ~args.swapCallData[trace[k].i]
          /\ StepsOf(trace[k].i) \in
                {<<"balanceOf", "transferFrom", "refundNoCalldata",
                   "transferReturned", "emit">>,
                 <<"getPriceUSD", "balanceOf", "transferFrom",
                   "refundNoCalldata", "transferReturned", "emit">>}
          /\ trace[k - 1].what = "success"
    /\ (Returned /\ args.partialSuccess) =>
          \A p \in DOMAIN args.tokens :
              (Pulled(p) /\ ~args.swapCallData[p]) =>
                  /\ logs[p].reason = "NO_SWAP_CALLDATA"
                  /\ Refunded(p)
                  /\ Cardinality({q \in DOMAIN args.tokens :
                                     args.tokens[q] = args.tokens[p]}) = 1
                     => /\ balanceOf[args.tokens[p]]["user"]
                             = pre.balanceOf[args.tokens[p]]["user"]
                        /\ allowance[args.tokens[p]] = pre.allowance[args.tokens[p]]

\* a best-effort call has returned in which asset 1, without payload, was
\* pulled and refunded, and asset 2 was converted
C16_Witness ==
    /\ Returned
    /\ args.partialSuccess
    /\ Len(logs) = 2
    /\ logs[1].reason = "NO_SWAP_CALLDATA"
    /\ logs[2].name = "Swept"
    /\ args.tokens[1] # args.tokens[2]
    /\ balanceOf[args.tokens[1]]["user"] = UserFunds
    /\ balanceOf[args.tokens[1]]["engine"] = 0

\* a position reported with a failed pull has no step after the pull: no
\* refund, no approval, no venue call
C17_NothingAfterFailedPull ==
    \A k \in Emitted("PERMIT2_TRANSFER_FAILED") :
        StepsOf(trace[k].i) \in
            {<<"balanceOf", "transferFrom", "emit">>,
             <<"getPriceUSD", "balanceOf", "transferFrom", "emit">>}

\* the step in which the registry's transfer call returns: either the pull
\* is taken as successful and the asset goes on to its refund or approval,
\* or PERMIT2_TRANSFER_FAILED is reported, with no balance and no allowance
\* changed and the next asset taken up in best-effort mode, and with the
\* call aborted for that reason in atomic mode
C17_FailedPullStep ==
    pc = "transferFrom" =>
        \/ pc' \in {"refundNoCalldata", "approve"} /\ i' = i
        \/ /\ trace'[Len(trace) + 1] =
                 [op |-> "emit", i |-> i, what |-> "PERMIT2_TRANSFER_FAILED"]
           /\ IF args.partialSuccess
              THEN /\ balanceOf' = balanceOf
                   /\ balance' = balance
                   /\ allowance' = allowance
                   /\ outcome'.kind # "reverted"
                   /\ Len(logs') = Len(logs) + 1
                   /\ logs'[Len(logs')].reason = "PERMIT2_TRANSFER_FAILED"
                   /\ IF i < Len(args.tokens)
                      THEN i' = i + 1 /\ pc' \in {"getPriceUSD", "balanceOf"}
                      ELSE pc' = "idle" /\ outcome'.kind = "returned"
              ELSE /\ pc' = "idle"
                   /\ outcome' = [kind |-> "reverted",
                                  reason |-> "PERMIT2_TRANSFER_FAILED"]
                   /\ balanceOf' = pre.balanceOf

\* C17: when the registry's transfer call for an asset fails, the engine
\* reports PERMIT2_TRANSFER_FAILED, the user's and the engine's balances of
\* the asset are unchanged, no refund is attempted, no allowance is granted
\* and the venue is not called for the asset; whether the invocation goes on
\* is decided by the mode alone.
C17_FailedPull == []C17_NothingAfterFailedPull /\ [][C17_FailedPullStep]_vars

\* a best-effort call has returned in which the pull of asset 1 failed and
\* asset 2 was converted
C17_Witness ==
    /\ Returned
    /\ args.partialSuccess
    /\ Len(logs) = 2
    /\ logs[1].reason = "PERMIT2_TRANSFER_FAILED"
    /\ logs[2].name = "Swept"
    /\ args.tokens[1] # args.tokens[2]
    /\ balanceOf[args.tokens[1]]["user"] = UserFunds
    /\ balanceOf[args.tokens[1]]["engine"] = 0

\* the step that queries the balance requests exactly the user's balance,
\* and the step in which the pull is taken as successful moves exactly that
\* amount from the user to the engine
C18_PullStep ==
    /\ (pc = "balanceOf" /\ pc' = "transferFrom") =>
          /\ t'.amountIn = balanceOf[args.tokens[i]]["user"]
          /\ t'.amountIn > 0
    /\ (pc = "transferFrom" /\ pc' \in {"refundNoCalldata", "approve"}) =>
          /\ t.amountIn = balanceOf[args.tokens[i]]["user"]
          /\ balanceOf'[args.tokens[i]]["engine"] =
                 balanceOf[args.tokens[i]]["engine"] + t.amountIn
          /\ balanceOf'[args.tokens[i]]["user"] = 0

\* C18: the amount requested from the registry is the user's balance queried
\* in the same iteration; whenever the pull is treated as successful, for
\* every registry address the caller may supply, the engine's custody has
\* grown by exactly that amount and the user's balance of the asset is zero,
\* so the engine never goes on to refund, approve or convert an amount it
\* did not receive.
C18_PullIsFullAndExact == [][C18_PullStep]_vars

\* a position reported with a zero balance has no step after the balance
\* query: no pull, no refund, no approval, no venue call
C19_NothingAfterZeroBalance ==
    \A k \in Emitted("ZERO_BALANCE") :
        StepsOf(trace[k].i) \in
            {<<"balanceOf", "emit">>, <<"getPriceUSD", "balanceOf", "emit">>}

\* the step in which the balance query returns: a positive balance goes on
\* to the pull; a zero balance is reported, changes no ledger, and takes up
\* the next asset in best-effort mode and aborts the call in atomic mode
C19_ZeroBalanceStep ==
    pc = "balanceOf" =>
        IF balanceOf[args.tokens[i]]["user"] > 0
        THEN pc' = "transferFrom" /\ i' = i /\ logs' = logs
        ELSE /\ trace'[Len(trace) + 1] =
                   [op |-> "emit", i |-> i, what |-> "ZERO_BALANCE"]
             /\ IF args.partialSuccess
                THEN /\ balanceOf' = balanceOf
                     /\ balance' = balance
                     /\ allowance' = allowance
                     /\ outcome'.kind # "reverted"
                     /\ Len(logs') = Len(logs) + 1
                     /\ logs'[Len(logs')].reason = "ZERO_BALANCE"
                     /\ IF i < Len(args.tokens)
                        THEN i' = i + 1 /\ pc' \in {"getPriceUSD", "balanceOf"}
                        ELSE pc' = "idle" /\ outcome'.kind = "returned"
                ELSE /\ pc' = "idle"
                     /\ outcome' = [kind |-> "reverted",
                                    reason |-> "ZERO_BALANCE"]
                     /\ balanceOf' = pre.balanceOf
                     /\ balance' = pre.balance
                     /\ allowance' = pre.allowance

\* C19: if the user's balance of an asset is zero when its turn comes, the
\* engine reports SweepFailed ZERO_BALANCE and makes no pull, approval, venue
\* call or transfer for that asset; in atomic mode the invocation aborts, in
\* best-effort mode it continues with the next asset.
C19_ZeroBalance == []C19_NothingAfterZeroBalance /\ [][C19_ZeroBalanceStep]_vars

\* a best-effort call has returned in which asset 1 was converted and the
\* same asset, listed again, was reported with a zero balance
C19_Witness ==
    /\ Returned
    /\ args.partialSuccess
    /\ Len(logs) = 2
    /\ logs[1].name = "Swept"
    /\ logs[2].reason = "ZERO_BALANCE"
    /\ balanceOf[args.tokens[2]]["user"] = 0

\* the state is the one a setter transaction ends in
AfterSetter ==
    /\ pc = "idle"
    /\ Len(trace) = 1
    /\ trace[1].op \in {"setAggregator", "setPriceOracle"}

\* a step changes the venue address or the oracle reference only as a
\* setter call of the controller that returns, and each setter changes its
\* own field only; a setter call of any other caller ends with ONLY_OWNER
\* and with both unchanged; no step changes the controller
C20_GuardStep ==
    /\ owner' = owner
    /\ (aggregator' # aggregator \/ priceOracle' # priceOracle) =>
          /\ pc = "idle"
          /\ AfterSetter'
          /\ trace'[1].what = owner
          /\ outcome' = [kind |-> "returned", reason |-> ""]
          /\ trace'[1].op = "setAggregator" => priceOracle' = priceOracle
          /\ trace'[1].op = "setPriceOracle" => aggregator' = aggregator
    /\ (AfterSetter' /\ trace'[1].what # owner) =>
          /\ outcome' = [kind |-> "reverted", reason |-> "ONLY_OWNER"]
          /\ aggregator' = aggregator
          /\ priceOracle' = priceOracle
          /\ balanceOf' = balanceOf
          /\ allowance' = allowance
          /\ balance' = balance
          /\ _status' = _status

\* C20: setAggregator and setPriceOracle change the configuration only when
\* called by the controller fixed at creation; a call by any other caller
\* aborts with ONLY_OWNER and leaves the venue address and the oracle
\* reference unchanged; no operation ever changes the controller.
C20_AccessGuard == [](owner = "deployer") /\ [][C20_GuardStep]_vars

\* the controller has moved the venue and the oracle away from their
\* deployed values, and a later setter call of the user has been refused
C20_Witness ==
    /\ AfterSetter
    /\ trace[1].what = "user"
    /\ outcome = [kind |-> "reverted", reason |-> "ONLY_OWNER"]
    /\ aggregator = "venue2"
    /\ priceOracle = "oracle"

\* C21 (as claimed): from the moment the lock becomes busy until the
\* invocation ends, the venue address and the oracle reference keep the
\* values they had at entry, whatever the callees do while they are called.
C21_ConfigFixedDuringBatch ==
    outcome.kind \in {"running", "returned"} =>
        /\ aggregator = pre.aggregator
        /\ priceOracle = pre.priceOracle

\* the sum of the amountOut values of the Swept events of a log
RECURSIVE SumOut(_)
SumOut(l) ==
    IF l = <<>> THEN 0
    ELSE (IF Head(l).name = "Swept" THEN Head(l).amountOut ELSE 0)
         + SumOut(Tail(l))

\* the points of an iteration before its venue call, and the end of the call
BeforeVenue ==
    {"getPriceUSD", "balanceOf", "transferFrom", "refundNoCalldata", "approve"}

\* with an ERC20 target: while the venue is called t.balBefore is the
\* engine's target balance; the output waiting to be settled is the positive
\* difference balAfter - balBefore, balAfter being the engine's balance; and
\* between iterations and at the return the user has gained the sum of the
\* amountOut of the Swept events, each positive, while the engine holds of
\* the target what it held before the call
C22_DeltaState ==
    (args.targetToken # ZERO /\ outcome.kind \in {"running", "returned"}) =>
        /\ pc = "aggregator" =>
              t.balBefore = balanceOf[args.targetToken]["engine"]
        /\ pc = "settle" =>
              /\ t.amountOut = t.balAfter - t.balBefore
              /\ t.amountOut > 0
              /\ t.balAfter = balanceOf[args.targetToken]["engine"]
        /\ (pc \in BeforeVenue \/ Returned) =>
              /\ balanceOf[args.targetToken]["user"] =
                     pre.balanceOf[args.targetToken]["user"] + SumOut(logs)
              /\ balanceOf[args.targetToken]["engine"] =
                     pre.balanceOf[args.targetToken]["engine"]
              /\ \A k \in DOMAIN logs :
                     logs[k].name = "Swept" => logs[k].amountOut > 0

\* the step in which the venue call returns success measures balAfter as the
\* engine's balance right after it, against the balBefore measured right
\* before it; the step in which the settlement succeeds moves exactly
\* balAfter - balBefore to the user, leaves the engine with balBefore, and
\* reports that amount and the amount pulled in Swept
C22_DeltaStep ==
    args.targetToken # ZERO =>
        /\ (pc = "aggregator" /\ pc' \in {"settle", "refundNoTarget"}) =>
              /\ t'.balBefore = balanceOf[args.targetToken]["engine"]
              /\ t'.balAfter = balanceOf'[args.targetToken]["engine"]
              /\ pc' = "settle" <=> t'.balAfter > t'.balBefore
        /\ (pc = "settle" /\ outcome'.kind # "reverted") =>
              /\ balanceOf'[args.targetToken]["user"] =
                     balanceOf[args.targetToken]["user"] + (t.balAfter - t.balBefore)
              /\ balanceOf'[args.targetToken]["engine"] = t.balBefore
              /\ Len(logs') = Len(logs) + 1
              /\ logs'[Len(logs')] =
                     [name |-> "Swept", user |-> "user", token |-> args.tokens[i],
                      amountIn |-> t.amountIn, targetToken |-> args.targetToken,
                      amountOut |-> t.balAfter - t.balBefore, reason |-> ""]

\* C22: with an ERC20 target the output amount of an asset is exactly the
\* engine's target balance right after the successful venue call minus the
\* balance right before it; exactly that amount is transferred to the user
\* and reported in Swept, so the user's target balance grows by the sum of
\* the amountOut values of the Swept events, and target tokens the engine
\* held before the iteration are never paid out.
C22_DeltaAccounting == []C22_DeltaState /\ [][C22_DeltaStep]_vars

\* a call has returned that converted two assets to the ERC20 target while
\* the engine held stray target tokens, which it still holds
C22_Witness ==
    /\ Returned
    /\ args.targetToken = "T"
    /\ pre.balanceOf["T"]["engine"] = StrayFunds
    /\ balanceOf["T"]["engine"] = StrayFunds
    /\ Len(logs) = 2
    /\ logs[1].name = "Swept" /\ logs[2].name = "Swept"
    /\ balanceOf["T"]["user"] = logs[1].amountOut + logs[2].amountOut

\* the steps of the history that read the engine's target balance
BalanceReads == {k \in DOMAIN trace : trace[k].op \in {"balBefore", "balAfter"}}

\* with the native target: no target balance is read; the amount waiting to
\* be sent is the engine's whole native balance; between iterations and at
\* the return the user holds what they held before the call, less the value
\* attached, plus the sum of the amountOut of the Swept events
C23_NativeState ==
    (args.targetToken = ZERO /\ outcome.kind \in {"running", "returned"}) =>
        /\ BalanceReads = {}
        /\ t.balBefore = 0 /\ t.balAfter = 0
        /\ pc = "sendEth" =>
              /\ t.balanceEth = balance["engine"]
              /\ t.balanceEth > 0
        /\ (pc \in BeforeVenue \/ Returned) =>
              balance["user"] = pre.balance["user"] - args.value + SumOut(logs)

\* the step in which the venue call returns success takes the engine's
\* native balance of that moment as the output; the step in which the send
\* succeeds moves all of it to the user and reports it in Swept
C23_NativeStep ==
    args.targetToken = ZERO =>
        /\ (pc = "aggregator" /\ pc' = "sendEth") =>
              t'.balanceEth = balance'["engine"]
        /\ (pc = "aggregator" /\ Len(logs') = Len(logs) + 1
               /\ logs'[Len(logs')].name = "Swept") =>
              /\ balance'["engine"] = 0
              /\ logs'[Len(logs')].amountOut = 0
        /\ (pc = "sendEth" /\ Len(logs') = Len(logs) + 1
               /\ logs'[Len(logs')].name = "Swept") =>
              /\ balance'["engine"] = 0
              /\ balance'["user"] = balance["user"] + balance["engine"]
              /\ logs'[Len(logs')] =
                     [name |-> "Swept", user |-> "user", token |-> args.tokens[i],
                      amountIn |-> t.amountIn, targetToken |-> ZERO,
                      amountOut |-> balance["engine"], reason |-> ""]

\* C23: with the native target (address zero), after a successful venue
\* call the output for the asset is the engine's entire native balance at
\* that moment, that whole balance is sent to the user, and Swept reports
\* exactly the amount sent; no balance of a token is read before or after.
C23_NativeTarget == []C23_NativeState /\ [][C23_NativeStep]_vars

\* a call with value attached has returned: the venue delivered native
\* funds and the user was sent the engine's whole balance, the attached
\* value included
C23_Witness ==
    /\ Returned
    /\ args.targetToken = ZERO
    /\ args.value = 1
    /\ Len(logs) = 1
    /\ logs[1].name = "Swept"
    /\ logs[1].amountOut > args.value
    /\ balance["engine"] = 0
    /\ balance["user"] = pre.balance["user"] - args.value + logs[1].amountOut

\* the oracle's answer was turned into a normalized price (no panic)
Normalized ==
    /\ pc = "getPriceUSD"
    /\ t'.price # 0
    /\ outcome'.reason # "Panic(0x11)"

\* the step in which the oracle answers (price, oracleDecimals): the
\* normalized price is the price for equal precisions, the floor of
\* price / 10^(oracleDecimals - d) for a finer oracle, and
\* price * 10^(d - oracleDecimals) for a coarser one
C24_NormalizeStep ==
    Normalized =>
        LET p == t'.price
            od == t'.decimals
            d == args.priceDecimals
            n == t'.normalizedPrice
        IN  /\ od = d => n = p
            /\ od > d => /\ n * 10 ^ (od - d) <= p
                         /\ p < (n + 1) * 10 ^ (od - d)
            /\ od < d => n = p * 10 ^ (d - od)
            /\ (od = 8 /\ d = 8) => n = p
            /\ (od = 10 /\ d = 8) => n = p \div 100
            /\ (od = 6 /\ d = 8) => n = p * 100

\* C24: for an oracle answer (price, oracleDecimals) and requested precision
\* d the normalized price is price when oracleDecimals = d,
\* floor(price / 10^(oracleDecimals - d)) when oracleDecimals > d, and
\* price * 10^(d - oracleDecimals) when oracleDecimals < d; 8 to 8 leaves the
\* price unchanged, 10 to 8 divides by 100 with floor, 6 to 8 multiplies by
\* 100.
C24_Normalization == [][C24_NormalizeStep]_vars

\* the oracle answered 199 with precision 10 for requested precision 8, the
\* normalized price is 1, and the gate was passed with it
C24_Witness ==
    /\ pc = "balanceOf"
    /\ args.priceDecimals = 8
    /\ t.price = 199 /\ t.decimals = 10
    /\ t.normalizedPrice = 1

\* the oracle's answer satisfies the gate: the price is known and its
\* normalized value lies within the bounds of the position, ends included
WithinBounds ==
    /\ t'.price # 0
    /\ args.minPricesUSD[i] <= t'.normalizedPrice
    /\ t'.normalizedPrice <= args.maxPricesUSD[i]

\* the step in which the oracle answers passes the gate (the balance query
\* of the same position follows) exactly when the answer is within bounds,
\* and reports PRICE_OUT_OF_RANGE_OR_UNKNOWN otherwise
C25_GateStep ==
    (pc = "getPriceUSD" /\ outcome'.reason # "Panic(0x11)") =>
        /\ (pc' = "balanceOf" /\ i' = i /\ logs' = logs) <=> WithinBounds
        /\ ~WithinBounds =>
              trace'[Len(trace) + 1] =
                  [op |-> "emit", i |-> i, what |-> "PRICE_OUT_OF_RANGE_OR_UNKNOWN"]
        /\ t'.okPrice <=> WithinBounds

\* C25: with an oracle configured the gate passes if and only if the oracle
\* price is non-zero and minPrice <= normalizedPrice <= maxPrice, both ends
\* inclusive; a zero price fails the gate even when minPrice is 0, and a
\* normalized price equal to minPrice or to maxPrice passes.
C25_PriceBounds == [][C25_GateStep]_vars

\* the gate was passed with a normalized price equal to both bounds
C25_Witness ==
    /\ pc = "balanceOf"
    /\ priceOracle # ZERO
    /\ t.normalizedPrice = args.minPricesUSD[i]
    /\ t.normalizedPrice = args.maxPricesUSD[i]
    /\ t.okPrice

\* during and after an invocation made with no oracle configured: the
\* oracle was never queried, okPrice is true, no price failure was reported
\* and the call did not end with the price failure
C26_NoOracleState ==
    (priceOracle = ZERO /\ Len(args.tokens) > 0) =>
        /\ pc # "getPriceUSD"
        /\ \A k \in DOMAIN trace : trace[k].op # "getPriceUSD"
        /\ Emitted("PRICE_OUT_OF_RANGE_OR_UNKNOWN") = {}
        /\ \A k \in DOMAIN logs : logs[k].reason # "PRICE_OUT_OF_RANGE_OR_UNKNOWN"
        /\ outcome.reason \notin {"PRICE_CHECK_FAILED", "Panic(0x11)"}
        /\ t.okPrice

\* with no oracle configured the first step of a call with an asset is the
\* balance query of that asset, whatever the bounds; a returning call of
\* setPriceOracle sets the reference to the address given, the zero address
\* included
C26_NoOracleStep ==
    /\ (pc = "idle" /\ pc' # "idle" /\ priceOracle = ZERO) =>
          /\ pc' = "balanceOf"
          /\ i' = 1
          /\ priceOracle' = ZERO
    /\ (pc = "idle" /\ pc' # "idle" /\ priceOracle # ZERO) => pc' = "getPriceUSD"
    /\ (priceOracle # ZERO /\ priceOracle' = ZERO) =>
          /\ AfterSetter'
          /\ trace'[1] = [op |-> "setPriceOracle", i |-> 0, what |-> owner]

\* C26: price checking is opt-in: when the oracle reference is the zero
\* address the gate passes for every asset and every pair of bounds,
\* minPrice > maxPrice included, the oracle is never queried and no
\* invocation reports the price failure; setPriceOracle(0) puts the engine
\* into that state for all later invocations.
C26_OptIn == []C26_NoOracleState /\ [][C26_NoOracleStep]_vars

\* with no oracle configured a call with minPrice > maxPrice has passed the
\* gate, pulled the asset and returned
C26_Witness ==
    /\ Returned
    /\ priceOracle = ZERO
    /\ Len(args.tokens) = 1
    /\ args.minPricesUSD[1] > args.maxPricesUSD[1]
    /\ \E k \in DOMAIN trace : trace[k].op = "transferFrom"
    /\ logs[1].reason = "NO_SWAP_CALLDATA"

\* the steps of the history that emitted the terminal event of position p
EventsOf(p) == {k \in DOMAIN trace : trace[k].op = "emit" /\ trace[k].i = p}

\* the asset at position p is listed once
ListedOnce(p) ==
    Cardinality({q \in DOMAIN args.tokens : args.tokens[q] = args.tokens[p]}) = 1

\* the terminal events of a returned call: one per position, in list order,
\* for the asset of the position
OnePerPosition ==
    /\ Len(logs) = Len(args.tokens)
    /\ \A p \in DOMAIN args.tokens :
          /\ Cardinality(EventsOf(p)) = 1
          /\ logs[p].name \in {"Swept", "SweepFailed"}
          /\ logs[p].user = "user"
          /\ logs[p].token = args.tokens[p]
    /\ \A k, l \in DOMAIN trace :
          (k < l /\ trace[k].op = "emit" /\ trace[l].op = "emit") =>
              trace[k].i < trace[l].i

\* the Swept event of position p comes after a transfer of the output to
\* the user, and carries the amount that left the user and the target
SweptAfterSettlement(p) ==
    /\ Settled(p)
    /\ logs[p].targetToken = args.targetToken
    /\ logs[p].amountOut > 0
    /\ ListedOnce(p) =>
          balanceOf[args.tokens[p]]["user"] =
              pre.balanceOf[args.tokens[p]]["user"] - logs[p].amountIn

\* C27 (as claimed): a non-aborted invocation over n assets emits exactly n
\* terminal events, one per list position and in list order, each either
\* Swept or SweepFailed, never both for one position; Swept is emitted only
\* after the output was transferred to the user and carries the amount
\* pulled and the amount settled for that position.
C27_EventProtocol ==
    Returned =>
        /\ OnePerPosition
        /\ \A p \in DOMAIN logs :
              logs[p].name = "Swept" => SweptAfterSettlement(p)

\* the positions whose native send failed
FailedSends == {trace[k].i : k \in Emitted("ETH_TRANSFER_FAILED")}

\* a position whose native send failed has no refund step and no Swept
C28_NoRefundNoSwept ==
    \A p \in FailedSends :
        /\ \A k \in DOMAIN trace :
              trace[k].i = p =>
                  /\ trace[k].op \notin Refunds
                  /\ trace[k].what # "Swept"
        /\ Cardinality(EventsOf(p)) = 1

\* the step in which the native send returns: either the balance reached the
\* user and Swept is emitted, or ETH_TRANSFER_FAILED is reported with no
\* token and no native balance moved; in best-effort mode the next asset is
\* taken up, in atomic mode the call aborts for that reason
C28_FailedSendStep ==
    pc = "sendEth" =>
        \/ /\ trace'[Len(trace) + 1] = [op |-> "emit", i |-> i, what |-> "Swept"]
           /\ balance'["user"] = balance["user"] + t.balanceEth
        \/ /\ trace'[Len(trace) + 1] =
                 [op |-> "emit", i |-> i, what |-> "ETH_TRANSFER_FAILED"]
           /\ IF args.partialSuccess
              THEN /\ balanceOf' = balanceOf
                   /\ balance' = balance
                   /\ outcome'.kind # "reverted"
                   /\ logs' = Append(logs,
                         [name |-> "SweepFailed", user |-> "user",
                          token |-> args.tokens[i], amountIn |-> 0,
                          targetToken |-> ZERO, amountOut |-> 0,
                          reason |-> "ETH_TRANSFER_FAILED"])
                   /\ IF i < Len(args.tokens)
                      THEN i' = i + 1 /\ pc' \in {"getPriceUSD", "balanceOf"}
                      ELSE pc' = "idle" /\ outcome'.kind = "returned"
              ELSE /\ pc' = "idle"
                   /\ outcome' = [kind |-> "reverted",
                                  reason |-> "ETH_TRANSFER_FAILED"]
                   /\ balanceOf' = pre.balanceOf
                   /\ balance' = pre.balance

\* C28: on the native-target path, when sending the native balance to the
\* user fails, the engine reports SweepFailed ETH_TRANSFER_FAILED, performs
\* no refund of the pulled source asset and emits no Swept for that asset;
\* in best-effort mode the invocation goes on with the next asset and what
\* the venue left of the source asset stays inside the engine.
C28_NativeSendFailure == []C28_NoRefundNoSwept /\ [][C28_FailedSendStep]_vars

\* a best-effort call has returned in which the native send of asset 1
\* failed, the venue had left some of asset 1, which the engine still holds
\* while the user holds none, and asset 2 was taken up afterwards
C28_Witness ==
    /\ Returned
    /\ args.partialSuccess
    /\ Len(logs) = 2
    /\ logs[1].reason = "ETH_TRANSFER_FAILED"
    /\ balanceOf[args.tokens[1]]["engine"] > 0
    /\ balanceOf[args.tokens[1]]["user"] = 0
    /\ args.tokens[2] # args.tokens[1]
    /\ \E k \in DOMAIN trace : trace[k].i = 2

\* the place of a step in the order of the per-asset state machine: price
\* query, balance query, pull, calldata check (with its refund), approve,
\* pre-balance read, venue call, settle or refund, report
Stage(e) ==
    CASE e.op = "getPriceUSD" -> 10
      [] e.op = "balanceOf" -> 20
      [] e.op = "transferFrom" -> 30
      [] e.op = "refundNoCalldata" -> 40
      [] e.op = "approve" -> 50
      [] e.op = "balBefore" -> 60
      [] e.op \in {"aggregator", "aggregatorReturned"} -> 70
      [] e.op \in {"balAfter", "settle", "sendEth", "refundAggFailed",
                   "refundNoTarget"} -> 80
      [] e.op = "emit" -> 90
      [] OTHER -> 0

\* the same, with the report of a failed venue call placed where line 183
\* has it: after the venue call and before the refund of line 185
CodeStage(e) ==
    IF e.op = "emit" /\ e.what = "AGGREGATOR_CALL_FAILED" THEN 75 ELSE Stage(e)

\* the steps of the history that are calls or reports of an asset (the
\* return of a transfer belongs to the transfer before it)
AssetSteps == {k \in DOMAIN trace : trace[k].i >= 1 /\ trace[k].op # "transferReturned"}

\* a step of position p with operation op is in the history before step k
Before(k, p, ops) ==
    \E l \in DOMAIN trace : l < k /\ trace[l].i = p /\ trace[l].op \in ops

\* the venue call of position p returned `what` before step k
VenueReturned(k, p, what) ==
    \E l \in DOMAIN trace :
        /\ l < k
        /\ trace[l] = [op |-> "aggregatorReturned", i |-> p, what |-> what]

\* every step of the history is taken only after the steps it depends on
\* were taken for the same position, and went well
EarlierStepsSucceeded ==
    \A k \in DOMAIN trace :
        LET e == trace[k] IN
        /\ (e.op = "balanceOf" /\ priceOracle # ZERO) =>
               /\ Before(k, e.i, {"getPriceUSD"})
               /\ trace[k - 1].op = "getPriceUSD"
        /\ e.op = "transferFrom" => trace[k - 1] = [e EXCEPT !.op = "balanceOf"]
        /\ e.op \in {"refundNoCalldata", "approve"} =>
               trace[k - 1] = [e EXCEPT !.op = "transferFrom"]
        /\ e.op = "balBefore" => trace[k - 1] = [e EXCEPT !.op = "approve"]
        /\ e.op = "aggregator" => Before(k, e.i, {"approve"})
        /\ e.op \in {"balAfter", "sendEth"} =>
               trace[k - 1] = [op |-> "aggregatorReturned", i |-> e.i,
                               what |-> "success"]
        /\ e.op \in {"settle", "refundNoTarget"} =>
               trace[k - 1] = [e EXCEPT !.op = "balAfter"]
        /\ e.op = "refundAggFailed" => VenueReturned(k, e.i, "failure")
        /\ e.op = "transferReturned" =>
               /\ trace[k - 1].i = e.i
               /\ trace[k - 1].op \in Refunds \cup {"settle"}

\* positions are taken up in list order and never returned to
NoInterleaving ==
    /\ \A k, l \in DOMAIN trace : k < l => trace[k].i <= trace[l].i
    /\ \A k \in DOMAIN trace :
          (k > 1 /\ trace[k].i > trace[k - 1].i) => trace[k].i = trace[k - 1].i + 1
    /\ \A k \in DOMAIN trace : trace[k].i <= Len(args.tokens)
    /\ outcome.kind # "reverted" =>
          \A q \in DOMAIN logs : logs[q].token = args.tokens[q]

RefundAt(k, p) ==
    /\ k \in DOMAIN trace /\ k + 1 \in DOMAIN trace
    /\ trace[k].i = p
    /\ trace[k].op \in Refunds
    /\ trace[k + 1] = [op |-> "transferReturned", i |-> p, what |-> "success"]

\* the reports of venue failures in the history
VenueFailureReports == Emitted("AGGREGATOR_CALL_FAILED") \cup Emitted("NO_TARGET_RECEIVED")

DistinctSources ==
    /\ \A p, q \in DOMAIN args.tokens : args.tokens[p] = args.tokens[q] => p = q
    /\ \A p \in DOMAIN args.tokens : args.tokens[p] # args.targetToken

\* C31 (as claimed): for every asset list, lists that name an asset twice or
\* name the target as a source included, the amount pulled at position i
\* does not depend on the outcome of any other position: when the engine
\* measures it, it is the user's balance of the asset at the start of the
\* invocation.
C31_PullsStartBalance ==
    pc \in {"balanceOf", "transferFrom"} =>
        balanceOf[args.tokens[i]]["user"] = pre.balanceOf[args.tokens[i]]["user"]

\* C31 (what holds instead): the amount the engine asks the registry to
\* pull is the user's balance of the asset at the moment of the position's
\* balance query; when the assets are pairwise distinct and none is the target, it
\* is the balance at the start of the invocation.
C31_PullsCurrentBalance ==
    /\ pc = "transferFrom" =>
          /\ t.amountIn = balanceOf[args.tokens[i]]["user"]
          /\ t.amountIn > 0
    /\ (pc \in {"balanceOf", "transferFrom"} /\ DistinctSources) =>
          balanceOf[args.tokens[i]]["user"] = pre.balanceOf[args.tokens[i]]["user"]

\* the pull of position 2 is requested, for the whole start balance, after
\* position 1, a different asset, was converted and settled
C31_Witness ==
    /\ pc = "transferFrom"
    /\ i = 2
    /\ DistinctSources
    /\ Settled(1)
    /\ t.amountIn = UserFunds
    /\ pre.balanceOf[args.tokens[2]]["user"] = UserFunds

\* the fields of the working record that the iteration has not assigned yet
\* when it waits in the call pc
Unassigned ==
    CASE pc = "getPriceUSD" ->
            {"price", "decimals", "normalizedPrice", "amountIn", "balBefore",
             "balAfter", "amountOut", "success", "balanceEth"}
      [] pc = "balanceOf" ->
            {"amountIn", "balBefore", "balAfter", "amountOut", "success",
             "balanceEth"}
      [] pc \in {"transferFrom", "refundNoCalldata", "approve"} ->
            {"balBefore", "balAfter", "amountOut", "success", "balanceEth"}
      [] pc \in {"aggregator", "refundAggFailed"} ->
            {"balAfter", "amountOut", "success", "balanceEth"}
      [] pc = "refundNoTarget" -> {"amountOut", "balanceEth"}
      [] pc = "settle" -> {"balanceEth"}
      [] pc = "sendEth" -> {"balBefore", "balAfter", "amountOut"}
      [] OTHER -> {}

\* while an iteration runs, every field it has not assigned yet has the
\* value of a fresh record, the price fields too when no oracle is set, and
\* the pre-balance on the native path
C32_FreshState ==
    (pc \in ExternalCalls \ {"permit"}) =>
        /\ \A f \in Unassigned : t[f] = FreshTemp[f]
        /\ (priceOracle = ZERO) =>
              t.price = 0 /\ t.decimals = 0 /\ t.normalizedPrice = 0
        /\ (args.targetToken = ZERO) => t.balBefore = 0 /\ t.balAfter = 0
        /\ (pc # "getPriceUSD") => t.okPrice
        /\ (pc \in AfterGate \ {"balanceOf"}) => t.amountIn > 0

\* a step that takes up a position starts it with a fresh record; the event
\* a step emits carries the asset of the position that ends and the amounts
\* of the record of that position
C32_FreshStep ==
    /\ (i' # i /\ pc' \in ExternalCalls) => t' = FreshTemp
    /\ (pc \in ExternalCalls /\ Len(logs') = Len(logs) + 1) =>
          LET ev == logs'[Len(logs')] IN
          /\ ev.token = args.tokens[i]
          /\ ev.name = "Swept" =>
                /\ ev.amountIn = t.amountIn
                /\ pc = "settle" =>
                      /\ ev.amountOut = t.amountOut
                      /\ t.amountOut = t.balAfter - t.balBefore
                /\ pc = "sendEth" => ev.amountOut = t.balanceEth
                /\ pc = "aggregator" => ev.amountOut = 0

\* C32: every loop iteration starts with price-check outcome true and
\* normalized price, pulled amount, pre-balance, post-balance, output amount
\* and call-success flag all zero/false; no value measured for position i
\* is used in a decision, transfer amount or event of position i+1, with an
\* ERC20 and with the native target.
C32_FreshRecord == []C32_FreshState /\ [][C32_FreshStep]_vars

\* position 2 waits for its venue call with nothing of its output measured
\* yet, after position 1 was converted with a non-zero output and reported
C32_Witness ==
    /\ pc = "aggregator"
    /\ i = 2
    /\ Len(logs) = 1
    /\ logs[1].name = "Swept"
    /\ logs[1].amountOut > 0
    /\ t.amountOut = 0
    /\ t.balAfter = 0

\* the calls of the engine that are transfers through _safeTransfer
TransferCalls == Refunds \cup {"settle"}

\* the step in which a transfer of the engine returns: either the call
\* reverted or answered false, nothing has moved and the invocation aborts
\* with TRANSFER_FAILED, in both modes; or the call went through, with empty
\* return data or with true, and the amount has moved from the engine to
\* the user (as seen when the step does not abort for the mode's sake)
C33_TransferStep ==
    pc \in TransferCalls =>
        LET tok == IF pc = "settle" THEN args.targetToken ELSE args.tokens[i]
            amt == IF pc = "settle" THEN t.amountOut ELSE t.amountIn
            ret == trace'[Len(trace) + 1]
        IN  /\ ret.op = "transferReturned"
            /\ ret.i = i
            /\ \/ /\ ret.what = "failure"
                  /\ Len(trace') = Len(trace) + 1
                  /\ pc' = "idle"
                  /\ outcome' = [kind |-> "reverted", reason |-> "TRANSFER_FAILED"]
                  /\ balanceOf' = pre.balanceOf
                  /\ balance' = pre.balance
                  /\ allowance' = pre.allowance
                  /\ logs' = pre.logs
               \/ /\ ret.what = "success"
                  /\ outcome'.reason # "TRANSFER_FAILED"
                  /\ outcome'.kind # "reverted" =>
                        /\ balanceOf'[tok]["user"] = balanceOf[tok]["user"] + amt
                        /\ balanceOf'[tok]["engine"] = balanceOf[tok]["engine"] - amt

\* C33: a transfer by the engine counts as successful if and only if the
\* low-level call to the asset contract succeeded and the return data is
\* empty or decodes to true; a call that reverts and a call that returns
\* false both count as a transfer failure and abort the invocation with
\* TRANSFER_FAILED instead of being taken as a completed refund or
\* settlement.
C33_SafeTransfer == [][C33_TransferStep]_vars

\* a best-effort call was aborted with TRANSFER_FAILED when the settlement
\* of position 2 failed, and the user has the start balances again
C33_Witness ==
    /\ Reverted
    /\ args.partialSuccess
    /\ outcome.reason = "TRANSFER_FAILED"
    /\ Len(trace) > 2
    /\ trace[Len(trace)] = [op |-> "transferReturned", i |-> 2, what |-> "failure"]
    /\ trace[Len(trace) - 1].op = "settle"
    /\ Settled(1)
    /\ balanceOf = pre.balanceOf

\* C34 (as claimed): at the end of every invocation that was not aborted
\* the conversion venue's allowance over the engine's holdings of every
\* asset of the batch is zero; an allowance granted for an asset whose
\* conversion call then failed, or of which the venue took only a part,
\* does not survive the invocation.
C34_NoResidualAllowance ==
    Returned =>
        \A p \in DOMAIN args.tokens : \A v \in Venue :
            allowance[args.tokens[p]][v] = 0

\* what the venues have lost of the ERC20 target, and of the native asset,
\* since the invocation was entered: what can have arrived at the engine
VenueLossOf(tok) ==
    (pre.balanceOf[tok]["venue"] - balanceOf[tok]["venue"])
    + (pre.balanceOf[tok]["venue2"] - balanceOf[tok]["venue2"])

VenueLossNative ==
    (pre.balance["venue"] - balance["venue"])
    + (pre.balance["venue2"] - balance["venue2"])

\* C35 (as claimed): an invocation never transfers to the user value that
\* the engine held before the invocation began: of every source asset the
\* user has at most what they had at the start (they get back at most what
\* was pulled), and of the target, ERC20 or native, they gain at most what
\* arrived at the engine during the invocation, whatever registry address,
\* payloads and attached value they supply.
C35_NoCrossInvocationPayout ==
    outcome.kind \in {"running", "returned"} =>
        /\ \A tok \in Source :
              balanceOf[tok]["user"] <= pre.balanceOf[tok]["user"]
        /\ balanceOf["T"]["user"] - pre.balanceOf["T"]["user"] <= VenueLossOf("T")
        /\ balance["user"] - pre.balance["user"] <= VenueLossNative

\* C36 (as claimed): sweepAndSwap accepts native value with the call, and
\* after every invocation that was not aborted the engine's native balance
\* equals its native balance before the call, with an ERC20 target as with
\* the native target, and also when the asset list is empty or every asset
\* fails before the venue call.
C36_ValueNotRetained ==
    Returned => balance["engine"] = pre.balance["engine"]

\* C37 (as claimed): evaluating the price gate never aborts the invocation:
\* for every oracle answer and every requested precision the power of ten
\* and the normalized price are computed without arithmetic overflow and
\* the gate passes or fails; in best-effort mode the step in which the
\* oracle answers therefore never ends the invocation with an abort.
C37_GateStep ==
    pc = "getPriceUSD" =>
        /\ outcome'.reason # "Panic(0x11)"
        /\ args.partialSuccess => outcome'.kind # "reverted"

C37_GateNeverAborts == [][C37_GateStep]_vars

\* the approvals of the history that were not followed by the venue call:
\* the approvals that failed, or that are still awaited
OpenApprovals ==
    {k \in DOMAIN trace :
        /\ trace[k].op = "approve"
        /\ ~\E l \in DOMAIN trace :
              l > k /\ trace[l].i = trace[k].i /\ trace[l].op = "aggregator"}

\* a failed approval is the last step of the invocation: nothing is
\* reported for it and no later asset is taken up
C38_NothingAfterFailedApproval ==
    \A k \in OpenApprovals :
        /\ k = Len(trace)
        /\ \/ pc = "approve"
           \/ /\ pc = "idle"
              /\ outcome = [kind |-> "reverted", reason |-> "APPROVE_FAILED"]
        /\ "APPROVE_FAILED" \notin {logs[q].reason : q \in DOMAIN logs}

\* the step in which token.approve returns: either the venue has its
\* allowance and is called for the same asset, or the invocation aborts
\* with APPROVE_FAILED, whatever the mode, with no event and every effect
\* undone
C38_ApproveStep ==
    pc = "approve" =>
        \/ /\ pc' = "aggregator"
           /\ i' = i
           /\ allowance'[args.tokens[i]][aggregator] = t.amountIn
           /\ logs' = logs
        \/ /\ pc' = "idle"
           /\ outcome' = [kind |-> "reverted", reason |-> "APPROVE_FAILED"]
           /\ trace' = trace
           /\ logs' = pre.logs
           /\ balanceOf' = pre.balanceOf
           /\ allowance' = pre.allowance
           /\ balance' = pre.balance
           /\ _status' = 1

\* C38: if granting the venue its spending right for an already pulled
\* asset fails (approve reverts or returns false), the invocation aborts
\* with APPROVE_FAILED in both modes; the failure is never turned into a
\* SweepFailed report followed by continuation, so in best-effort mode no
\* state is reachable in which an asset was pulled, its approval failed and
\* a later asset was processed.
C38_ApprovalFailureIsFatal ==
    []C38_NothingAfterFailedApproval /\ [][C38_ApproveStep]_vars

\* a best-effort call was aborted with APPROVE_FAILED at the approval of
\* position 2, after position 1 was converted and settled; the user has the
\* start balances again
C38_Witness ==
    /\ Reverted
    /\ args.partialSuccess
    /\ outcome.reason = "APPROVE_FAILED"
    /\ Len(trace) > 0
    /\ trace[Len(trace)] = [op |-> "approve", i |-> 2, what |-> ""]
    /\ Pulled(2)
    /\ Settled(1)
    /\ balanceOf = pre.balanceOf
    /\ logs = <<>>

====
